---- MODULE Spec2Model ----
(***************************************************************************)
(* A model of nanotime's time.c: the packed Time value, the Duration       *)
(* operations, the duration formatter and the calendar decomposition.      *)
(*                                                                         *)
(* Machine integers.  TLC's integers are 32 bits wide, the program's are   *)
(* 64, so an int64_t / uint64_t value is a sequence of four 16-bit limbs,  *)
(* least significant first, in two's complement.  Arithmetic on them wraps *)
(* modulo 2^64, which is what the gcc builds of time.c do for int64_t at   *)
(* -O0 .. -O3 and what the C standard says for uint64_t.  The same         *)
(* operators work on five limbs (80 bits): the claims' reference values    *)
(* are computed there, where nothing overflows.  C's int values (years,    *)
(* days, clock fields, buffer offsets) are TLC integers.                   *)
(***************************************************************************)
EXTENDS Integers, Sequences, FiniteSets, TLC

Limb == 2^16
HalfLimb == 2^15

RECURSIVE AddFrom(_, _, _, _)
\* a + b + c on limb sequences of one length, from limb i up; the carry out is dropped
AddFrom(a, b, i, c) ==
    IF i > Len(a) THEN <<>>
    ELSE LET s == a[i] + b[i] + c
         IN  <<s % Limb>> \o AddFrom(a, b, i + 1, s \div Limb)

RECURSIVE Zeros(_)
Zeros(n) == IF n = 0 THEN <<>> ELSE <<0>> \o Zeros(n - 1)

RECURSIVE NotFrom(_, _)
NotFrom(a, i) == IF i > Len(a) THEN <<>> ELSE <<Limb - 1 - a[i]>> \o NotFrom(a, i + 1)

Not(a) == NotFrom(a, 1)
Add(a, b) == AddFrom(a, b, 1, 0)
Sub(a, b) == AddFrom(a, Not(b), 1, 1)
Neg(a) == AddFrom(Not(a), Zeros(Len(a)), 1, 1)
IsNeg(a) == a[Len(a)] >= HalfLimb

RECURSIVE ULtFrom(_, _, _)
ULtFrom(a, b, i) ==
    IF i = 0 THEN FALSE
    ELSE IF a[i] # b[i] THEN a[i] < b[i]
    ELSE ULtFrom(a, b, i - 1)

\* unsigned and signed comparison
ULt(a, b) == ULtFrom(a, b, Len(a))
ULe(a, b) == ~ULt(b, a)
SLt(a, b) == IF IsNeg(a) # IsNeg(b) THEN IsNeg(a) ELSE ULt(a, b)
SLe(a, b) == ~SLt(b, a)
SGt(a, b) == SLt(b, a)
SGe(a, b) == ~SLt(a, b)

\* a small integer (|n| < 2^31) as an n-limb value; I64 is (int64_t)n
Lit(n, len) ==
    IF n >= 0 THEN <<n % Limb, n \div Limb>> \o Zeros(len - 2)
    ELSE Neg(<<(-n) % Limb, (-n) \div Limb>> \o Zeros(len - 2))
I64(n) == Lit(n, 4)

\* conversion to a 32-bit int: the low 32 bits, as gcc converts
ToInt(a) == (IF a[2] >= HalfLimb THEN a[2] - Limb ELSE a[2]) * Limb + a[1]

RECURSIVE SignFill(_, _)
SignFill(neg, n) == IF n = 0 THEN <<>> ELSE <<IF neg THEN Limb - 1 ELSE 0>> \o SignFill(neg, n - 1)
\* sign extension and zero extension to len limbs, truncation to 64 bits
SExt(a, len) == a \o SignFill(IsNeg(a), len - Len(a))
ZExt(a, len) == a \o Zeros(len - Len(a))
Low64(a) == SubSeq(a, 1, 4)

RECURSIVE MulSmallFrom(_, _, _, _)
\* a * k for 0 <= k < 2^15, wrapping
MulSmallFrom(a, k, i, c) ==
    IF i > Len(a) THEN <<>>
    ELSE LET p == a[i] * k + c
         IN  <<p % Limb>> \o MulSmallFrom(a, k, i + 1, p \div Limb)
MulSmall(a, k) == MulSmallFrom(a, k, 1, 0)

\* a shifted left by n whole limbs, wrapping
ShlLimbs(a, n) == IF n = 0 THEN a ELSE SubSeq(Zeros(n) \o a, 1, Len(a))

RECURSIVE MulFrom(_, _, _)
MulFrom(a, b, j) ==
    IF j > Len(b) THEN Zeros(Len(a))
    ELSE LET lo == MulSmall(a, b[j] % 256)
             hi == MulSmall(MulSmall(a, b[j] \div 256), 256)
         IN  Add(ShlLimbs(Add(lo, hi), j - 1), MulFrom(a, b, j + 1))
\* a * b, wrapping
Mul(a, b) == MulFrom(a, b, 1)

\* a * k for a digit 0 <= k < 2^16, wrapping
MulDigit(a, k) == Add(MulSmall(a, k % 256), MulSmall(MulSmall(a, k \div 256), 256))

ShortDivCons(q, rest) == <<<<q>> \o rest[1], rest[2]>>
RECURSIVE ShortDiv(_, _, _, _)
\* unsigned a / k for 0 < k <= 2^15, from limb i down:
\* <<quotient limbs i..1 (most significant first), remainder>>
ShortDiv(a, k, i, r) ==
    IF i = 0 THEN <<<<>>, r>>
    ELSE ShortDivCons((r * Limb + a[i]) \div k, ShortDiv(a, k, i - 1, (r * Limb + a[i]) % k))

RECURSIVE Reverse(_)
Reverse(s) == IF s = <<>> THEN <<>> ELSE Reverse(Tail(s)) \o <<Head(s)>>

RECURSIVE Digit(_, _, _, _)
\* the largest digit d with d * b <= cur, given lo * b <= cur < hi * b
Digit(cur, b, lo, hi) ==
    IF hi - lo = 1 THEN lo
    ELSE LET mid == (lo + hi) \div 2
         IN  IF ULe(MulDigit(b, mid), cur) THEN Digit(cur, b, mid, hi)
             ELSE Digit(cur, b, lo, mid)

\* one step of the long division: the digit d of the quotient, put before the
\* digits up1 found so far, and the remainder cur - d * bb
LongDivDigit(cur, bb, up1, d) == <<<<d>> \o up1, Sub(cur, MulDigit(bb, d))>>
LongDivStep(cur, bb, up1) == LongDivDigit(cur, bb, up1, Digit(cur, bb, 0, Limb))
LongDivUp(ai, b, up, n) ==
    CHOOSE r \in {LongDivStep(cur, b \o <<0>>, up[1]) :
                  cur \in {<<ai>> \o SubSeq(up[2], 1, n)}} : TRUE
RECURSIVE LongDiv(_, _, _)
\* unsigned long division in base 2^16, limbs Len(a)..i of a by b:
\* <<quotient limbs i..Len(a) (least significant first), remainder (one limb longer)>>
LongDiv(a, b, i) ==
    IF i > Len(a) THEN <<<<>>, Zeros(Len(a) + 1)>>
    ELSE CHOOSE r \in {LongDivUp(a[i], b, up, Len(a)) : up \in {LongDiv(a, b, i + 1)}} : TRUE

IsSmall(b) == b[1] <= HalfLimb /\ \A i \in 2..Len(b) : b[i] = 0

ShortQuoRem(sd, n) == <<Reverse(sd[1]), <<sd[2]>> \o Zeros(n - 1)>>
LongQuoRem(ld, n) == <<ld[1], SubSeq(ld[2], 1, n)>>
\* unsigned division: <<a / b, a % b>>, b # 0
UDivMod(a, b) ==
    IF IsSmall(b) THEN ShortQuoRem(ShortDiv(a, b[1], Len(a), 0), Len(a))
    ELSE LongQuoRem(LongDiv(a, b, 1), Len(a))
UDiv(a, b) == UDivMod(a, b)[1]
URem(a, b) == UDivMod(a, b)[2]

Abs(a) == IF IsNeg(a) THEN Neg(a) ELSE a
\* C's signed / and %: the quotient truncates toward zero, the remainder has the
\* sign of the dividend
Signed(neg, a) == IF neg THEN Neg(a) ELSE a
SDiv(a, b) == Signed(IsNeg(a) # IsNeg(b), UDiv(Abs(a), Abs(b)))
SRem(a, b) == Signed(IsNeg(a), URem(Abs(a), Abs(b)))

\* a shifted right by n whole limbs, zero filled
ShrLimbs(a, n) == IF n = 0 THEN a ELSE SubSeq(a, n + 1, Len(a)) \o Zeros(n)

\* a << n and a >> n (logical, as for uint64_t), 0 <= n < 16 * Len(a)
Shl(a, n) == MulSmall(ShlLimbs(a, n \div 16), 2 ^ (n % 16))
Shr(a, n) == Reverse(ShortDiv(ShrLimbs(a, n \div 16), 2 ^ (n % 16), Len(a), 0)[1])
\* a >> n, arithmetic (as gcc shifts an int64_t)
Sar(a, n) == IF IsNeg(a) THEN Not(Shr(Not(a), n)) ELSE Shr(a, n)

Pow2(n, len) == Shl(Lit(1, len), n)

RECURSIVE LimbAnd(_, _, _)
LimbAnd(x, y, n) ==
    IF n = 0 \/ x = 0 \/ y = 0 THEN 0
    ELSE (IF x % 2 = 1 /\ y % 2 = 1 THEN 1 ELSE 0) + 2 * LimbAnd(x \div 2, y \div 2, n - 1)
RECURSIVE AndFrom(_, _, _)
AndFrom(a, b, i) == IF i > Len(a) THEN <<>> ELSE <<LimbAnd(a[i], b[i], 16)>> \o AndFrom(a, b, i + 1)
\* a & b and a | b
And(a, b) == AndFrom(a, b, 1)
Or(a, b) == Not(And(Not(a), Not(b)))

Zero64 == Zeros(4)

\* the exact sum and difference of two int64_t, in five limbs, and whether a
\* five-limb value is an int64_t
WAdd(a, b) == Add(SExt(a, 5), SExt(b, 5))
WSub(a, b) == Sub(SExt(a, 5), SExt(b, 5))
FitsInt64(w) == w = SExt(Low64(w), 5)
\* What a build makes of a signed + or - whose result is no int64_t, which C
\* leaves undefined: the code gcc emits wraps around, the code gcc -ftrapv emits
\* aborts the program.  The Duration functions, whose overflowing cases are
\* what is asked about, add and subtract with SAdd and SSub; the sums of the
\* Time functions are written with Add, and what is stated of them is stated
\* for the sums that are an int64_t.
SignedOverflow == {"wraps", "traps"}
\* no value: the program was aborted before the call returned
Trap == <<>>
SAdd(a, b, ovf) ==
    IF a = Trap \/ b = Trap THEN Trap
    ELSE IF ovf = "traps" /\ ~FitsInt64(WAdd(a, b)) THEN Trap
    ELSE Add(a, b)
SSub(a, b, ovf) ==
    IF a = Trap \/ b = Trap THEN Trap
    ELSE IF ovf = "traps" /\ ~FitsInt64(WSub(a, b)) THEN Trap
    ELSE Sub(a, b)
SMul(a, b, ovf) ==
    IF a = Trap \/ b = Trap THEN Trap
    ELSE IF ovf = "traps" /\ Mul(SExt(a, 8), SExt(b, 8)) # SExt(Mul(a, b), 8) THEN Trap
    ELSE Mul(a, b)

\* C's int, held as an int64_t that is its sign extension: the exact result of
\* a +, - or * of two of them is an int64_t, and where it is no int the build
\* wraps it or traps, as for int64_t
\* (int)x, as gcc converts: the low 32 bits
AsInt(x) == SExt(SubSeq(x, 1, 2), 4)
FitsInt(x) == x = AsInt(x)
IntOf(x, ovf) ==
    IF x = Trap THEN Trap
    ELSE IF FitsInt(x) THEN x
    ELSE IF ovf = "traps" THEN Trap
    ELSE AsInt(x)
IAdd(a, b, ovf) == IF a = Trap \/ b = Trap THEN Trap ELSE IntOf(Add(a, b), ovf)
ISub(a, b, ovf) == IF a = Trap \/ b = Trap THEN Trap ELSE IntOf(Sub(a, b), ovf)
IMul(a, b, ovf) == IF a = Trap \/ b = Trap THEN Trap ELSE IntOf(Mul(a, b), ovf)
\* a / b for b > 0
IDiv(a, b) == IF a = Trap THEN Trap ELSE SDiv(a, b)

(***************************************************************************)
(* double.  time.c computes one of its offsets in floating point.  A       *)
(* double is sign, mantissa and binary exponent: the value m * 2^e with    *)
(* m < 2^53, the mantissa held in seven limbs so that a product of two is  *)
(* exact before it is rounded to nearest, ties to even.                    *)
(***************************************************************************)
Wide == 7
MantBits == 53

RECURSIVE TopLimb(_, _)
TopLimb(a, i) == IF i = 0 THEN 0 ELSE IF a[i] # 0 THEN i ELSE TopLimb(a, i - 1)
RECURSIVE IntBits(_)
IntBits(x) == IF x = 0 THEN 0 ELSE 1 + IntBits(x \div 2)
\* the number of significant bits of an unsigned value
BitLenAt(a, i) == IF i = 0 THEN 0 ELSE 16 * (i - 1) + IntBits(a[i])
BitLen(a) == BitLenAt(a, TopLimb(a, Len(a)))

\* whether the quotient q, with rest left over of a unit that is two halves,
\* rounds up: to nearest, ties to even
DRoundUp(q, rest, half) == ULt(half, rest) \/ (rest = half /\ q[1] % 2 = 1)
DRoundQuo(q, rest, half) == IF DRoundUp(q, rest, half) THEN Add(q, Lit(1, Len(q))) ELSE q
\* m * 2^e with the low sh bits of m rounded away, q being m >> sh
DRoundTo(neg, m, e, sh, q) ==
    [neg |-> neg, m |-> DRoundQuo(q, Sub(m, Shl(q, sh)), Pow2(sh - 1, Len(m))), e |-> e + sh]
DRoundBy(neg, m, e, sh) ==
    IF sh <= 0 THEN [neg |-> neg, m |-> m, e |-> e] ELSE DRoundTo(neg, m, e, sh, Shr(m, sh))
\* m * 2^e rounded to a 53-bit mantissa, to nearest, ties to even
DRound(neg, m, e) == DRoundBy(neg, m, e, BitLen(m) - MantBits)

\* (double)a for an int64_t a
DFromInt(a) == DRound(IsNeg(a), ZExt(Abs(a), Wide), 0)
\* the double nearest to the decimal literal p / q, whose mantissa is scaled by 2^k
DLiteralQuo(dm, q, k) == DRound(FALSE, DRoundQuo(dm[1], Add(dm[2], dm[2]), q), -k)
DLiteral(p, q, k) == DLiteralQuo(UDivMod(Shl(Lit(p, Wide), k), Lit(q, Wide)), Lit(q, Wide), k)
DMul(x, y) == DRound(x.neg # y.neg, Mul(x.m, y.m), x.e + y.e)
\* x / y for y # 0: the quotient of the mantissas, taken to two bits more than a
\* mantissa holds and one more that says whether anything is left over, rounded
DDivQuo(neg, dm, e) ==
    DRound(neg, Add(Add(dm[1], dm[1]), Lit(IF dm[2] = Zeros(Wide) THEN 0 ELSE 1, Wide)), e - 1)
DDivBy(x, y, k) == DDivQuo(x.neg # y.neg, UDivMod(Shl(x.m, k), y.m), x.e - y.e - k)
DDiv(x, y) ==
    IF x.m = Zeros(Wide) THEN x ELSE DDivBy(x, y, MantBits + 2 + BitLen(y.m) - BitLen(x.m))
\* x - y for x and y whose exponents are less than a mantissa and five bits
\* apart: the difference of the two at the smaller exponent, rounded
DSigned(x, e) == Signed(x.neg, Shl(x.m, x.e - e))
DSubAt(x, y, e) == DRound(IsNeg(Sub(DSigned(x, e), DSigned(y, e))),
                          Abs(Sub(DSigned(x, e), DSigned(y, e))), e)
DSub(x, y) == DSubAt(x, y, IF x.e < y.e THEN x.e ELSE y.e)
\* (int64_t)x: the fraction is discarded
DToInt64(x) ==
    LET mag == IF x.e >= 0 THEN Shl(x.m, x.e) ELSE Shr(x.m, -x.e)
    IN  IF x.neg THEN Neg(Low64(mag)) ELSE Low64(mag)

(***************************************************************************)
(* Constants of time.c                                                     *)
(***************************************************************************)
nt_secondsPerMinute == I64(60)
nt_secondsPerHour == Mul(I64(60), nt_secondsPerMinute)
nt_secondsPerDay == Mul(I64(24), nt_secondsPerHour)
nt_secondsPerWeek == Mul(I64(7), nt_secondsPerDay)
nt_daysPer400Years == I64(365 * 400 + 97)
nt_daysPer100Years == I64(365 * 100 + 24)
nt_daysPer4Years == I64(365 * 4 + 1)

\* -292277022399, written as -(292277 * 10^6 + 22399)
nt_absoluteZeroYear == Neg(Add(Mul(I64(292277), I64(1000000)), I64(22399)))
nt_internalYear == I64(1)

\* 365.2425 as a double
Double365_2425 == DLiteral(3652425, 10000, 44)
\* (nt_absoluteZeroYear - nt_internalYear) * 365.2425 * nt_secondsPerDay: the
\* operands are converted to double, each product is rounded to double, and the
\* result is converted to int64_t
nt_absoluteToInternal ==
    DToInt64(DMul(DMul(DFromInt(Sub(nt_absoluteZeroYear, nt_internalYear)), Double365_2425),
                  DFromInt(nt_secondsPerDay)))
nt_internalToAbsolute == Neg(nt_absoluteToInternal)
\* 1e9, a double
Double1e9 == DFromInt(I64(1000000000))

nt_unixToInternal ==
    Mul(I64(1969 * 365 + (1969 \div 4) - (1969 \div 100) + (1969 \div 400)), nt_secondsPerDay)
nt_internalToUnix == Neg(nt_unixToInternal)
nt_wallToInternal ==
    Mul(I64(1884 * 365 + (1884 \div 4) - (1884 \div 100) + (1884 \div 400)), nt_secondsPerDay)

nt_hasMonotonic == Shl(I64(1), 63)
nt_maxWall == Add(nt_wallToInternal, Sub(Shl(I64(1), 33), I64(1)))
nt_minWall == nt_wallToInternal
nt_nsecMask == I64(2 ^ 30 - 1)
nt_nsecShift == 30

minDuration == Neg(Shl(I64(1), 63))
maxDuration == Sub(Shl(I64(1), 63), I64(1))

nt_daysBefore ==
    <<0,
      31,
      31 + 28,
      31 + 28 + 31,
      31 + 28 + 31 + 30,
      31 + 28 + 31 + 30 + 31,
      31 + 28 + 31 + 30 + 31 + 30,
      31 + 28 + 31 + 30 + 31 + 30 + 31,
      31 + 28 + 31 + 30 + 31 + 30 + 31 + 31,
      31 + 28 + 31 + 30 + 31 + 30 + 31 + 31 + 30,
      31 + 28 + 31 + 30 + 31 + 30 + 31 + 31 + 30 + 31,
      31 + 28 + 31 + 30 + 31 + 30 + 31 + 31 + 30 + 31 + 30,
      31 + 28 + 31 + 30 + 31 + 30 + 31 + 31 + 30 + 31 + 30 + 31>>

\* nt_Weekday and nt_Month: a weekday indexes nt_longDayNames, a month less one
\* indexes nt_longMonthNames
nt_SUNDAY == 0
nt_MONDAY == 1
nt_WEDNESDAY == 3
nt_THURSDAY == 4
nt_SATURDAY == 6
nt_JANUARY == 1
nt_FEBRUARY == 2
nt_MARCH == 3
nt_APRIL == 4
nt_SEPTEMBER == 9
nt_DECEMBER == 12

(***************************************************************************)
(* State.  The library keeps its state in the values its callers hold and  *)
(* in the Location objects:                                                *)
(*   call  the operation called last         arg  that call's arguments    *)
(*   t, u  the Times (or Durations) the caller holds                       *)
(*   ret   what the last call returned                                     *)
(*   locs  the Location objects, by address                                *)
(*   nt_startNano  the static the monotonic readings are offsets from      *)
(***************************************************************************)
VARIABLES call, arg, t, u, ret, locs, nt_startNano
vars == <<call, arg, t, u, ret, locs, nt_startNano>>
\* the program's statics
statics == <<locs, nt_startNano>>

NULL == "NULL"
\* the addresses of the two static Locations
nt_utcLoc == "nt_utcLoc"
nt_localLoc == "nt_localLoc"
nt_UTC == nt_utcLoc
nt_Local == nt_localLoc

\* a Location with every field but the name zero, as static storage starts
nt_Location(name) ==
    [name |-> name, zone |-> <<>>, tx |-> <<>>, extend |-> NULL,
     cacheStart |-> Zero64, cacheEnd |-> Zero64, cacheZone |-> NULL]
\* the static Locations as the program starts
StaticLocations == [l \in {nt_utcLoc, nt_localLoc} |->
                        IF l = nt_utcLoc THEN nt_Location("UTC") ELSE nt_Location(NULL)]

\* a Time value
nt_Time(wall, ext, loc) == [wall |-> wall, ext |-> ext, loc |-> loc]

HasMono(tm) == And(tm.wall, nt_hasMonotonic) # Zero64

nt_Time_nsec(tm) == ToInt(And(tm.wall, nt_nsecMask))

nt_Time_sec(tm) ==
    IF HasMono(tm)
    THEN Add(nt_wallToInternal, Shr(Shl(tm.wall, 1), nt_nsecShift + 1))
    ELSE tm.ext

nt_Time_unixSec(tm) == Add(nt_Time_sec(tm), nt_internalToUnix)

nt_Time_stripMono(tm) ==
    IF HasMono(tm)
    THEN [tm EXCEPT !.ext = nt_Time_sec(tm), !.wall = And(tm.wall, nt_nsecMask)]
    ELSE tm

\* strcmp(loc->name, nt_utcLoc.name) == 0 decides.  With loc null, or with a
\* null name (that of nt_localLoc until a loader sets it), the read goes through
\* a null pointer and the program is stopped by the fault
nt_Time_setLoc(tm, loc) ==
    IF loc = NULL THEN Trap
    ELSE IF locs[loc].name = NULL THEN Trap
    ELSE LET l == IF locs[loc].name = locs[nt_utcLoc].name THEN NULL ELSE loc
         IN  [nt_Time_stripMono(tm) EXCEPT !.loc = l]

\* the seconds packed as they are, minWall not taken off
setMonoUnbiased(tm, m) ==
    IF ~HasMono(tm)
    THEN LET sec == tm.ext
         IN  IF SLt(sec, nt_minWall) \/ SLt(nt_maxWall, sec) THEN tm
             ELSE [tm EXCEPT
                     !.wall = Or(tm.wall, Or(nt_hasMonotonic, Shl(sec, nt_nsecShift))),
                     !.ext = m]
    ELSE [tm EXCEPT !.ext = m]
nt_Time_setMono(tm, m) ==
    IF ~HasMono(tm)
    THEN LET sec == tm.ext
         IN  IF SLt(sec, nt_minWall) \/ SLt(nt_maxWall, sec) THEN tm
             ELSE [tm EXCEPT
                     !.wall = Or(tm.wall, Or(nt_hasMonotonic, Shl(Sub(sec, nt_minWall), nt_nsecShift))),
                     !.ext = m]
    ELSE [tm EXCEPT !.ext = m]

nt_Time_mono(tm) == IF ~HasMono(tm) THEN Zero64 ELSE tm.ext

\* d seconds added to tm.  sec + d and t->ext + d are signed sums: the test that
\* follows the second one looks for the wrapped value
nt_Time_addSec_ext(tm, d, sum) ==
    IF sum = Trap THEN Trap
    ELSE IF SGt(sum, tm.ext) = SGt(d, Zero64) THEN nt_Time(tm.wall, sum, tm.loc)
    ELSE IF SGt(d, Zero64) THEN nt_Time(tm.wall, Sub(Shl(I64(1), 63), I64(1)), tm.loc)
    ELSE nt_Time(tm.wall, Neg(Sub(Shl(I64(1), 63), I64(1))), tm.loc)
nt_Time_addSec_strip(tm, d, ovf) == nt_Time_addSec_ext(tm, d, SAdd(tm.ext, d, ovf))
nt_Time_addSec_mono(tm, d, dsec, ovf) ==
    IF dsec = Trap THEN Trap
    ELSE IF SLe(Zero64, dsec) /\ SLe(dsec, Sub(Shl(I64(1), 33), I64(1)))
    THEN nt_Time(Or(Or(And(tm.wall, nt_nsecMask), Shl(dsec, nt_nsecShift)), nt_hasMonotonic),
                 tm.ext, tm.loc)
    ELSE nt_Time_addSec_strip(nt_Time_stripMono(tm), d, ovf)
nt_Time_addSec(tm, d, ovf) ==
    IF HasMono(tm)
    THEN nt_Time_addSec_mono(tm, d, SAdd(Shr(Shl(tm.wall, 1), nt_nsecShift + 1), d, ovf), ovf)
    ELSE nt_Time_addSec_strip(tm, d, ovf)

BothMono(tm, um) == And(And(tm.wall, um.wall), nt_hasMonotonic) # Zero64

\* the value of a C condition
BoolInt(b) == IF b THEN 1 ELSE 0

\* ts > us || (ts == us && nsec(t)) > nsec(u): > binds tighter than ||, and
\* its left operand is the 0 or 1 of the &&
nt_TimeAfter_sec(ts, us, tn, un) == SGt(ts, us) \/ BoolInt(ts = us /\ tn # 0) > un
nt_TimeAfter(tm, um) ==
    IF BothMono(tm, um) THEN SGt(tm.ext, um.ext)
    ELSE nt_TimeAfter_sec(nt_Time_sec(tm), nt_Time_sec(um), nt_Time_nsec(tm), nt_Time_nsec(um))

nt_TimeBefore_sec(ts, us, tn, un) == SLt(ts, us) \/ BoolInt(ts = us /\ tn # 0) < un
nt_TimeBefore(tm, um) ==
    IF BothMono(tm, um) THEN SLt(tm.ext, um.ext)
    ELSE nt_TimeBefore_sec(nt_Time_sec(tm), nt_Time_sec(um), nt_Time_nsec(tm), nt_Time_nsec(um))

\* the result, from the keys tc and uc
nt_TimeCompare_keys(tc, uc) == IF SLt(tc, uc) THEN -1 ELSE IF SGt(tc, uc) THEN 1 ELSE 0
\* the keys are the seconds, and the nanoseconds where the seconds are equal
nt_TimeCompare_sec(tm, um, ts, us) ==
    IF ts = us THEN nt_TimeCompare_keys(I64(nt_Time_nsec(tm)), I64(nt_Time_nsec(um)))
    ELSE nt_TimeCompare_keys(ts, us)
\* nt_TimeCompare without the monotonic fast path
TimeCompareWall(tm, um) == nt_TimeCompare_sec(tm, um, nt_Time_sec(tm), nt_Time_sec(um))
nt_TimeCompare(tm, um) ==
    IF BothMono(tm, um) THEN nt_TimeCompare_keys(tm.ext, um.ext)
    ELSE nt_TimeCompare_sec(tm, um, nt_Time_sec(tm), nt_Time_sec(um))

nt_TimeEqual(tm, um) ==
    IF BothMono(tm, um) THEN tm.ext = um.ext
    ELSE nt_Time_sec(tm) = nt_Time_sec(um) /\ nt_Time_nsec(tm) = nt_Time_nsec(um)

nt_Location_get(l) == IF l = NULL THEN nt_utcLoc ELSE l

\* the addresses of the elements of the zone array of a Location, and the zone
\* a pointer to one of them points to
ZoneAddress == <<"&zone[0]", "&zone[1]", "&zone[2]">>
ZoneAt(l, p) == l.zone[CHOOSE i \in 1..Len(l.zone) : ZoneAddress[i] = p]

\* sec, moved by the offset of the cached zone where l is not UTC and the cache
\* covers sec: the lookup of the uncached case is commented out in the source
\* tested, cacheStart and cacheEnd are what the reads of the cache slot in the
\* test of line 495 gave, zone what the read of l->cacheZone at line 496 gave
nt_Time_abs_read(l, sec, tested, cacheStart, cacheEnd, zone) ==
    IF tested # NULL /\ SLe(cacheStart, sec) /\ SLt(sec, cacheEnd)
    THEN IF zone = NULL THEN Trap ELSE Add(sec, I64(ZoneAt(l, zone).offset))
    ELSE sec
nt_Time_abs_zone(l, sec) ==
    IF l # nt_utcLoc
    THEN nt_Time_abs_read(locs[l], sec, locs[l].cacheZone, locs[l].cacheStart,
                          locs[l].cacheEnd, locs[l].cacheZone)
    ELSE sec
\* the absolute time of tm
nt_Time_abs(tm) ==
    Add(nt_Time_abs_zone(IF tm.loc = NULL \/ tm.loc = nt_localLoc THEN nt_Location_get(tm.loc)
                         ELSE tm.loc,
                         nt_Time_unixSec(tm)),
        Add(nt_unixToInternal, nt_internalToAbsolute))

nt_isLeap(year) == year % 4 = 0 /\ (year % 100 # 0 \/ year % 400 = 0)

\* the month and the day of the month of the day `day` of a year, the leap day
\* taken out: the month is estimated as if every month had 31 days and adjusted
nt_absDate_month(year, yday, day) ==
    LET est == day \div 31
        end == nt_daysBefore[est + 1 + 1]
        month == IF day >= end THEN est + 1 ELSE est
        begin == IF day >= end THEN end ELSE nt_daysBefore[est + 1]
    IN  [year |-> year, month |-> month + 1, day |-> day - begin + 1, yday |-> yday]
\* the date of the year (an int) and the day of the year (an int)
nt_absDate_full(year, yday, full) ==
    IF ~full THEN [year |-> year, month |-> 0, day |-> 0, yday |-> yday]
    ELSE IF nt_isLeap(year) /\ yday = 31 + 29 - 1
         THEN [year |-> year, month |-> nt_FEBRUARY, day |-> 29, yday |-> yday]
    ELSE nt_absDate_month(year, yday,
                          IF nt_isLeap(year) /\ yday > 31 + 29 - 1 THEN yday - 1 ELSE yday)
\* n -= n >> 2
nt_absDate_cut(n) == Sub(n, Shr(n, 2))
\* years within a 4-year cycle
nt_absDate_1n(y, d, n, full) ==
    nt_absDate_full(ToInt(Add(Add(y, n), nt_absoluteZeroYear)),
                    ToInt(Sub(d, Mul(I64(365), n))), full)
nt_absDate_1(y, d, full) == nt_absDate_1n(y, d, nt_absDate_cut(UDiv(d, I64(365))), full)
\* 4-year cycles
nt_absDate_4n(y, d, n, full) ==
    nt_absDate_1(Add(y, Mul(I64(4), n)), Sub(d, Mul(nt_daysPer4Years, n)), full)
nt_absDate_4(y, d, full) == nt_absDate_4n(y, d, UDiv(d, nt_daysPer4Years), full)
\* 100-year cycles
nt_absDate_100n(y, d, n, full) ==
    nt_absDate_4(Add(y, Mul(I64(100), n)), Sub(d, Mul(nt_daysPer100Years, n)), full)
nt_absDate_100(y, d, full) ==
    nt_absDate_100n(y, d, nt_absDate_cut(UDiv(d, nt_daysPer100Years)), full)
\* 400-year cycles
nt_absDate_400n(d, n, full) ==
    nt_absDate_100(Mul(I64(400), n), Sub(d, Mul(nt_daysPer400Years, n)), full)
nt_absDate_400(d, full) == nt_absDate_400n(d, UDiv(d, nt_daysPer400Years), full)
\* the year and the day of the year of an absolute time, and, when full, the month
\* and the day of the month; year and yday are ints, so the int64_t values the
\* source assigns to them keep their low 32 bits
nt_absDate(abs, full) == nt_absDate_400(UDiv(abs, nt_secondsPerDay), full)

nt_Time_date(tm, full) == nt_absDate(nt_Time_abs(tm), full)

nt_TimeDate_ret(d) == [year |-> d.year, month |-> d.month, day |-> d.day]
nt_TimeDate(tm) == nt_TimeDate_ret(nt_Time_date(tm, TRUE))
nt_TimeYear(tm) == nt_Time_date(tm, FALSE).year
nt_TimeMonth(tm) == nt_Time_date(tm, TRUE).month
nt_TimeDay(tm) == nt_Time_date(tm, TRUE).day

nt_Time_absWeekday(abs) ==
    LET sec == URem(Add(abs, Mul(I64(nt_MONDAY), nt_secondsPerDay)), nt_secondsPerWeek)
    IN  ToInt(UDiv(sec, nt_secondsPerDay))
nt_TimeWeekday(tm) == nt_Time_absWeekday(nt_Time_abs(tm))

\* the year and the week of the Thursday of the week of abs; d is an nt_Weekday,
\* taken as a signed int, so that the shift of Friday, Saturday and Sunday is
\* negative
nt_TimeISOWeek_week(td) == [year |-> td.year, week |-> td.yday \div 7 + 1]
nt_TimeISOWeek_d(abs, d) ==
    nt_TimeISOWeek_week(nt_absDate(Add(abs, Mul(I64(IF d = 4 THEN -3 ELSE d), nt_secondsPerDay)),
                                   FALSE))
\* d is computed before it is used
nt_TimeISOWeek_abs(abs) ==
    CHOOSE w \in {nt_TimeISOWeek_d(abs, d) : d \in {nt_THURSDAY - nt_Time_absWeekday(abs)}} : TRUE
nt_TimeISOWeek(tm) == nt_TimeISOWeek_abs(nt_Time_abs(tm))

nt_Time_absClock_min(hour, sec, perMinute) ==
    [hour |-> hour, min |-> sec \div perMinute, sec |-> sec - (sec \div perMinute) * perMinute]
nt_Time_absClock_hour(sec, perHour) ==
    nt_Time_absClock_min(sec \div perHour, sec - (sec \div perHour) * perHour,
                         ToInt(nt_secondsPerMinute))
nt_Time_absClock(abs) ==
    nt_Time_absClock_hour(ToInt(URem(abs, nt_secondsPerDay)), ToInt(nt_secondsPerHour))
nt_TimeClock(tm) == nt_Time_absClock(nt_Time_abs(tm))

nt_TimeHour(tm) == ToInt(UDiv(URem(nt_Time_abs(tm), nt_secondsPerDay), nt_secondsPerHour))
nt_TimeMinute(tm) == ToInt(UDiv(URem(nt_Time_abs(tm), nt_secondsPerHour), nt_secondsPerMinute))
nt_TimeSecond(tm) == ToInt(URem(nt_Time_abs(tm), nt_secondsPerMinute))
nt_TimeNanosecond(tm) == nt_Time_nsec(tm)

\* nt_unixTime with the seconds left on the Unix epoch
unixTimeNoOffset(sec, nsec) == nt_Time(I64(nsec), sec, nt_Local)
nt_unixTime(sec, nsec) == nt_Time(I64(nsec), Add(sec, nt_unixToInternal), nt_Local)

\* nt_now, of the timespec ts that clock_gettime(CLOCK_REALTIME) fills
nt_now(ts) == [sec |-> ts.tv_sec, nsec |-> ts.tv_nsec, mono |-> Zero64]
nt_runtimeNano(ts) == I64(nt_now(ts).nsec)

\* sec is now.sec + nt_unixToInternal - nt_minWall
nt_Now_sec(sec, nsec, mono) ==
    IF Sar(sec, 33) # Zero64 THEN nt_Time(I64(nsec), Add(sec, nt_minWall), nt_Local)
    ELSE nt_Time(Or(Or(nt_hasMonotonic, Shl(sec, nt_nsecShift)), I64(nsec)), mono, nt_Local)
nt_Now_now(now) ==
    nt_Now_sec(Add(now.sec, Sub(nt_unixToInternal, nt_minWall)), now.nsec,
               Sub(now.mono, nt_startNano))
nt_Now(ts) == nt_Now_now(nt_now(ts))

\* the value nt_init stores in nt_startNano
nt_init(ts) == Sub(nt_runtimeNano(ts), I64(1))

nt_TimeUTC(tm) == nt_Time_setLoc(tm, nt_utcLoc)
nt_TimeLocal(tm) == nt_Time_setLoc(tm, nt_Local)

\* what nt_panic, which std.h defines, leaves of the call: the program ends with
\* the message
nt_panic(msg) == [panic |-> msg]
\* nt_TimeIn without its test of loc
TimeInUnchecked(tm, loc) == nt_Time_setLoc(tm, loc)
nt_TimeIn(tm, loc) ==
    IF loc = NULL THEN nt_panic("time: missing Location in call to nt_TimeIn")
    ELSE nt_Time_setLoc(tm, loc)

nt_TimeUnix(tm) == nt_Time_unixSec(tm)

\* nt_Unix of an nsec of 64 bits: n is (int64_t)(nsec / 1e9), and what is left
\* of nsec (int64_t)(nsec - n * 1e9), the division, the product and the
\* difference being of doubles
nt_Unix_left(sec, nsec) ==
    IF SLt(nsec, Zero64)
    THEN nt_unixTime(Sub(sec, I64(1)), ToInt(Add(nsec, I64(1000000000))))
    ELSE nt_unixTime(sec, ToInt(nsec))
nt_Unix_n(sec, nsec, n) ==
    CHOOSE r \in {nt_Unix_left(Add(sec, n), DToInt64(left)) :
                  left \in {DSub(DFromInt(nsec), p) :
                            p \in {DMul(DFromInt(n), Double1e9)}}} : TRUE
nt_Unix_nsec(sec, nsec) ==
    IF SLt(nsec, Zero64) \/ SGe(nsec, I64(1000000000))
    THEN CHOOSE r \in {nt_Unix_n(sec, nsec, DToInt64(q)) :
                       q \in {DDiv(DFromInt(nsec), Double1e9)}} : TRUE
    ELSE nt_unixTime(sec, ToInt(nsec))

\* nsec is an int here (|nsec| < 2^31), where the quotient nsec / 1e9 the source
\* takes in floating point is exact
nt_Unix(sec, nsec) ==
    IF nsec < 0 \/ nsec >= 1000000000
    THEN LET n == IF nsec < 0 THEN -((-nsec) \div 1000000000) ELSE nsec \div 1000000000
             sec1 == Add(sec, I64(n))
             nsec1 == nsec - n * 1000000000
         IN  IF nsec1 < 0 THEN nt_unixTime(Sub(sec1, I64(1)), nsec1 + 1000000000)
             ELSE nt_unixTime(sec1, nsec1)
    ELSE nt_unixTime(sec, nsec)

\* alpha and omega, the beginning and the end of time for zone transitions, as
\* gcc folds their initializers
nt_alpha == Neg(Shl(I64(1), 63))
nt_omega == Sub(Shl(I64(1), 63), I64(1))

\* the result of a lookup; start is an int, and what is assigned to it keeps its
\* low 32 bits
nt_Location_lookup_ret(name, offset, start, end, isDST) ==
    [name |-> name, offset |-> offset, start |-> AsInt(start), end |-> end, isDST |-> isDST]
nt_Location_lookup_zone(zone, start, end) ==
    nt_Location_lookup_ret(zone.name, zone.offset, start, end, zone.isDST)
\* the binary search for the entry with the largest time <= sec: tx[lo] in the
\* end, and the time of the entry after it, or omega
RECURSIVE nt_Location_lookup_search(_, _, _, _, _)
nt_Location_lookup_search(tx, sec, lo, hi, end) ==
    IF hi - lo > 1
    THEN LET m == (lo + hi) \div 2
         IN  IF SLt(sec, tx[m + 1].when)
             THEN nt_Location_lookup_search(tx, sec, lo, m, tx[m + 1].when)
             ELSE nt_Location_lookup_search(tx, sec, m, hi, end)
    ELSE <<lo, end>>
nt_Location_lookup_found(l, found) ==
    nt_Location_lookup_zone(l.zone[l.tx[found[1] + 1].index + 1], l.tx[found[1] + 1].when, found[2])
\* the zone in use at sec in the Location l.  Before the first transition, and
\* with no transitions, the zone is the one the cache points to, the call of
\* lookupFirstZone being commented out: with an empty cache the read goes
\* through a null pointer and the program is stopped by the fault
\* zone, cacheStart and cacheEnd are what the reads of the cache slot at lines
\* 1225 and 1226 gave, start and end what the reads at lines 1229 and 1230 gave
nt_Location_lookup_read(l, sec, zone, cacheStart, cacheEnd, start, end) ==
    IF Len(l.zone) = 0
    THEN nt_Location_lookup_ret("UTC", 0, nt_alpha, nt_omega, FALSE)
    ELSE IF zone # NULL /\ SLe(cacheStart, sec) /\ SLt(sec, cacheEnd)
    THEN nt_Location_lookup_zone(ZoneAt(l, zone), start, end)
    ELSE IF Len(l.tx) = 0 \/ SLt(sec, l.tx[1].when)
    THEN IF zone = NULL THEN Trap
         ELSE nt_Location_lookup_zone(ZoneAt(l, zone), nt_alpha,
                                      IF Len(l.tx) > 0 THEN l.tx[1].when ELSE nt_omega)
    ELSE nt_Location_lookup_found(l, nt_Location_lookup_search(l.tx, sec, 0, Len(l.tx), nt_omega))
nt_Location_lookup_l(l, sec) ==
    nt_Location_lookup_read(l, sec, l.cacheZone, l.cacheStart, l.cacheEnd,
                            l.cacheStart, l.cacheEnd)
nt_Location_lookup(l, sec) == nt_Location_lookup_l(locs[nt_Location_get(l)], sec)

\* whether some transition uses the first zone
nt_Location_firstZoneUsed(l) == \E i \in 1..Len(l.tx) : l.tx[i].index = 0
\* the index of the zone for the times before the first transition: the first
\* zone if no transition uses it; else, the first transition being to a zone in
\* daylight time, the nearest zone before that one not in daylight time; else
\* the first zone not in daylight time; else the first zone
nt_Location_lookupFirstZone_3(l) ==
    IF \E zi \in 0..(Len(l.zone) - 1) : ~l.zone[zi + 1].isDST
    THEN CHOOSE zi \in 0..(Len(l.zone) - 1) :
            /\ ~l.zone[zi + 1].isDST
            /\ \A zj \in 0..(zi - 1) : l.zone[zj + 1].isDST
    ELSE 0
nt_Location_lookupFirstZone_2(l, first) ==
    IF \E zi \in 0..(first - 1) : ~l.zone[zi + 1].isDST
    THEN CHOOSE zi \in 0..(first - 1) :
            /\ ~l.zone[zi + 1].isDST
            /\ \A zj \in (zi + 1)..(first - 1) : l.zone[zj + 1].isDST
    ELSE nt_Location_lookupFirstZone_3(l)
nt_Location_lookupFirstZone(l) ==
    IF ~nt_Location_firstZoneUsed(l) THEN 0
    ELSE IF Len(l.tx) > 0 /\ l.zone[l.tx[1].index + 1].isDST
    THEN nt_Location_lookupFirstZone_2(l, l.tx[1].index)
    ELSE nt_Location_lookupFirstZone_3(l)

\* the Times of the bounds of the zone in effect at tm.  startSec and endSec are
\* ints: what the lookup returned keeps its low 32 bits, and no int equals alpha
\* or omega
nt_TimeZoneBounds_bound(tm, sec) == nt_Time_setLoc(nt_unixTime(sec, 0), tm.loc)
nt_TimeZoneBounds_ret(start, end) ==
    IF start = Trap \/ end = Trap THEN Trap ELSE [start |-> start, end |-> end]
nt_TimeZoneBounds_secs(tm, startSec, endSec) ==
    nt_TimeZoneBounds_ret(IF startSec # nt_alpha THEN nt_TimeZoneBounds_bound(tm, startSec)
                          ELSE nt_Time(Zero64, Zero64, NULL),
                          IF endSec # nt_omega THEN nt_TimeZoneBounds_bound(tm, endSec)
                          ELSE nt_Time(Zero64, Zero64, NULL))
nt_TimeZoneBounds_lookup(tm, lookup) ==
    IF lookup = Trap THEN Trap
    ELSE nt_TimeZoneBounds_secs(tm, AsInt(lookup.start), AsInt(lookup.end))
nt_TimeZoneBounds(tm) ==
    nt_TimeZoneBounds_lookup(tm, nt_Location_lookup(tm.loc, nt_Time_unixSec(tm)))

\* nhi and nlo with hi * base + lo = nhi * base + nlo and 0 <= nlo < base;
\* hi, lo and base are ints
nt_norm_ret(hi, lo) == IF hi = Trap \/ lo = Trap THEN Trap ELSE <<hi, lo>>
nt_norm_up_n(hi, lo, base, n, ovf) ==
    nt_norm_ret(IAdd(hi, n, ovf), ISub(lo, IMul(n, base, ovf), ovf))
nt_norm_up(hi, lo, base, ovf) ==
    IF hi = Trap \/ lo = Trap THEN Trap
    ELSE IF SGe(lo, base) THEN nt_norm_up_n(hi, lo, base, IDiv(lo, base), ovf)
    ELSE <<hi, lo>>
nt_norm_down_n(hi, lo, base, n, ovf) ==
    nt_norm_up(ISub(hi, n, ovf), IAdd(lo, IMul(n, base, ovf), ovf), base, ovf)
nt_norm(hi, lo, base, ovf) ==
    IF hi = Trap \/ lo = Trap THEN Trap
    ELSE IF SLt(lo, Zero64)
    THEN nt_norm_down_n(hi, lo, base,
                        IAdd(IDiv(ISub(ISub(Zero64, lo, ovf), I64(1), ovf), base), I64(1), ovf),
                        ovf)
    ELSE nt_norm_up(hi, lo, base, ovf)

\* the days from the absolute epoch to the start of year
nt_daysSinceEpoch_1(y, d) == Add(d, Mul(I64(365), y))
nt_daysSinceEpoch_4n(y, d, n) ==
    nt_daysSinceEpoch_1(Sub(y, Mul(I64(4), n)), Add(d, Mul(nt_daysPer4Years, n)))
nt_daysSinceEpoch_100n(y, d, n) ==
    nt_daysSinceEpoch_4n(Sub(y, Mul(I64(100), n)), Add(d, Mul(nt_daysPer100Years, n)),
                         UDiv(Sub(y, Mul(I64(100), n)), I64(4)))
nt_daysSinceEpoch_400n(y, n) ==
    nt_daysSinceEpoch_100n(Sub(y, Mul(I64(400), n)), Mul(nt_daysPer400Years, n),
                           UDiv(Sub(y, Mul(I64(400), n)), I64(100)))
nt_daysSinceEpoch_y(y) == nt_daysSinceEpoch_400n(y, UDiv(y, I64(400)))
nt_daysSinceEpoch(year) == nt_daysSinceEpoch_y(Sub(year, nt_absoluteZeroYear))

\* the Time of the fields in loc.  The fields are ints; the offset of the zone
\* found for the time is taken off, the second lookup of the source changing
\* nothing
nt_Date_time(tm, loc) == nt_Time_setLoc(tm, loc)
\* start is an int.  Where utc is outside [start, end) nt_Location_lookup is
\* called again and what it returns is dropped: offset is read from the first
\* lookup once more
nt_Date_offset(unix, nsec, loc, lookup, utc, start) ==
    IF (SLt(utc, start) \/ SGe(utc, lookup.end)) /\ nt_Location_lookup(loc, utc) = Trap
    THEN Trap
    ELSE nt_Date_time(nt_unixTime(Sub(unix, I64(lookup.offset)), ToInt(nsec)), loc)
nt_Date_unix(unix, nsec, loc, lookup) ==
    IF lookup = Trap THEN Trap
    ELSE IF lookup.offset # 0
    THEN nt_Date_offset(unix, nsec, loc, lookup, Sub(unix, I64(lookup.offset)),
                        AsInt(lookup.start))
    ELSE nt_Date_time(nt_unixTime(unix, ToInt(nsec)), loc)
nt_Date_lookup(unix, nsec, loc) == nt_Date_unix(unix, nsec, loc, nt_Location_lookup(loc, unix))
\* unix is computed before the lookup
nt_Date_abs(d, hour, min, sec, nsec, loc) ==
    CHOOSE tm \in
        {nt_Date_lookup(unix, nsec, loc) :
            unix \in {Add(Add(Mul(d, nt_secondsPerDay),
                              Add(Add(Mul(hour, nt_secondsPerHour),
                                      Mul(min, nt_secondsPerMinute)),
                                  sec)),
                          Add(nt_absoluteToInternal, nt_internalToUnix))}} : TRUE
nt_Date_d(d, day1, hour, min, sec, nsec, loc) ==
    IF day1 = Trap THEN Trap ELSE nt_Date_abs(Add(d, day1), hour, min, sec, nsec, loc)
\* d is computed before the days of the month are added
nt_Date_days(year, month, day, hour, min, sec, nsec, loc, ovf) ==
    CHOOSE tm \in
        {nt_Date_d(d, ISub(day, I64(1), ovf), hour, min, sec, nsec, loc) :
            d \in {Add(Add(nt_daysSinceEpoch(year), I64(nt_daysBefore[ToInt(month) - 1 + 1])),
                       I64(IF nt_isLeap(ToInt(year)) /\ ToInt(month) >= nt_MARCH
                           THEN 1 ELSE 0))}} : TRUE
nt_Date_hour(year, month, dh, min, sec, nsec, loc, ovf) ==
    IF dh = Trap THEN Trap
    ELSE nt_Date_days(year, month, dh[1], dh[2], min, sec, nsec, loc, ovf)
nt_Date_min(year, month, day, hm, sec, nsec, loc, ovf) ==
    IF hm = Trap THEN Trap
    ELSE nt_Date_hour(year, month, nt_norm(day, hm[1], I64(24), ovf), hm[2], sec, nsec, loc, ovf)
nt_Date_sec(year, month, day, hour, ms, nsec, loc, ovf) ==
    IF ms = Trap THEN Trap
    ELSE nt_Date_min(year, month, day, nt_norm(hour, ms[1], I64(60), ovf), ms[2], nsec, loc, ovf)
nt_Date_nsec(year, month, day, hour, min, sn, loc, ovf) ==
    IF sn = Trap THEN Trap
    ELSE nt_Date_sec(year, month, day, hour, nt_norm(min, sn[1], I64(60), ovf), sn[2], loc, ovf)
nt_Date_month(ym, month, day, hour, min, sec, nsec, loc, ovf) ==
    IF ym = Trap \/ month = Trap THEN Trap
    ELSE nt_Date_nsec(ym[1], month, day, hour, min,
                      nt_norm(sec, nsec, I64(1000000000), ovf), loc, ovf)
nt_Date_m(ym, day, hour, min, sec, nsec, loc, ovf) ==
    nt_Date_month(ym, IF ym = Trap THEN Trap ELSE IAdd(ym[2], I64(1), ovf),
                  day, hour, min, sec, nsec, loc, ovf)
nt_Date(year, month, day, hour, min, sec, nsec, loc, ovf) ==
    IF loc = NULL THEN nt_panic("time: missing Location in call to Date\n")
    ELSE nt_Date_m(nt_norm(year, ISub(month, I64(1), ovf), I64(12), ovf),
                   day, hour, min, sec, nsec, loc, ovf)

(***************************************************************************)
(* Duration: a signed 64-bit count of nanoseconds.                         *)
(***************************************************************************)
\* the units, which time.h defines: a Duration counts nanoseconds
nt_NANOSECOND == I64(1)
nt_MICROSECOND == Mul(I64(1000), nt_NANOSECOND)
nt_MILLISECOND == Mul(I64(1000), nt_MICROSECOND)
nt_SECOND == Mul(I64(1000), nt_MILLISECOND)
nt_MINUTE == Mul(I64(60), nt_SECOND)
nt_HOUR == Mul(I64(60), nt_MINUTE)

\* t + d.  d / 1e9 is a division of doubles, d being converted to one, and its
\* quotient is converted to int64_t; d % (int32_t)1e9 is a remainder of int64_t
nt_TimeAdd_mono(tm, d, te) ==
    IF te = Trap THEN Trap
    ELSE IF \/ SLt(d, Zero64) /\ SGt(te, tm.ext)
            \/ SGt(d, Zero64) /\ SLt(te, tm.ext)
    THEN nt_Time_stripMono(tm)
    ELSE nt_Time(tm.wall, te, tm.loc)
nt_TimeAdd_ext(tm, d, ovf) ==
    IF tm = Trap THEN Trap
    ELSE IF HasMono(tm) THEN nt_TimeAdd_mono(tm, d, SAdd(tm.ext, d, ovf))
    ELSE tm
nt_TimeAdd_sec(tm, d, dsec, nsec, ovf) ==
    CHOOSE r \in {nt_TimeAdd_ext(added, d, ovf) :
                  added \in {nt_Time_addSec(nt_Time(Or(And(tm.wall, Not(nt_nsecMask)),
                                                      I64(nsec)),
                                                   tm.ext, tm.loc),
                                           dsec, ovf)}} : TRUE
\* the nanoseconds stored as they are summed, no second carried
TimeAddNoCarry(tm, d, dsec, nsec, ovf) == nt_TimeAdd_sec(tm, d, dsec, nsec, ovf)
nt_TimeAdd_nsec(tm, d, dsec, nsec, ovf) ==
    IF nsec >= 1000000000
    THEN nt_TimeAdd_sec(tm, d, Add(dsec, I64(1)), nsec - 1000000000, ovf)
    ELSE IF nsec < 0
    THEN nt_TimeAdd_sec(tm, d, Sub(dsec, I64(1)), nsec + 1000000000, ovf)
    ELSE nt_TimeAdd_sec(tm, d, dsec, nsec, ovf)
nt_TimeAdd(tm, d, ovf) ==
    CHOOSE r \in {nt_TimeAdd_nsec(tm, d, DToInt64(q), nsec, ovf) :
                  q \in {DDiv(DFromInt(d), Double1e9)},
                  nsec \in {nt_Time_nsec(tm) + ToInt(SRem(d, I64(1000000000)))}} : TRUE

\* t - u of two monotonic readings
nt_subMono_d(tm, um, d) ==
    IF d = Trap THEN Trap
    ELSE IF SLt(d, Zero64) /\ SGt(tm, um) THEN maxDuration
    ELSE IF SGt(d, Zero64) /\ SLt(tm, um) THEN minDuration
    ELSE d
nt_subMono(tm, um, ovf) == nt_subMono_d(tm, um, SSub(tm, um, ovf))

\* t - u: the difference of the seconds times nt_SECOND plus the difference of
\* the nanoseconds, which is kept if u + d is t
nt_TimeSub_check(tm, um, d, back) ==
    IF d = Trap \/ back = Trap THEN Trap
    ELSE IF nt_TimeEqual(back, tm) THEN d
    ELSE IF nt_TimeBefore(tm, um) THEN minDuration
    ELSE maxDuration
nt_TimeSub_d(tm, um, d, ovf) ==
    nt_TimeSub_check(tm, um, d, IF d = Trap THEN Trap ELSE nt_TimeAdd(um, d, ovf))
nt_TimeSub(tm, um, ovf) ==
    IF BothMono(tm, um) THEN nt_subMono(tm.ext, um.ext, ovf)
    ELSE nt_TimeSub_d(tm, um,
                      SAdd(SMul(SSub(nt_Time_sec(tm), nt_Time_sec(um), ovf), nt_SECOND, ovf),
                           I64(nt_Time_nsec(tm) - nt_Time_nsec(um)), ovf),
                      ovf)

\* the time elapsed since t and the time until t, of the timespec ts every
\* clock_gettime of the call fills
nt_Since(tm, ts, ovf) ==
    IF HasMono(tm) THEN nt_subMono(SSub(nt_runtimeNano(ts), nt_startNano, ovf), tm.ext, ovf)
    ELSE nt_TimeSub(nt_Now(ts), tm, ovf)
nt_Until(tm, ts, ovf) ==
    IF HasMono(tm) THEN nt_subMono(tm.ext, SSub(nt_runtimeNano(ts), nt_startNano, ovf), ovf)
    ELSE nt_TimeSub(tm, nt_Now(ts), ovf)

\* a floored remainder in place of C's truncated one
DurationFloor(d, m) ==
    IF SLe(m, Zero64) THEN d ELSE Sub(d, SRem(Add(SRem(d, m), m), m))
nt_DurationTruncate(d, m) ==
    IF SLe(m, Zero64) THEN d ELSE Sub(d, SRem(d, m))

\* x+x < y: <<the bool>>, or Trap
nt_lessThanHalf_sum(sum, y) == IF sum = Trap THEN Trap ELSE <<SLt(sum, y)>>
nt_lessThanHalf(x, y, ovf) == nt_lessThanHalf_sum(SAdd(x, x, ovf), y)

\* the return of d1 or of the saturated value
nt_DurationRound_d1(d, d1, neg) ==
    IF d1 = Trap THEN Trap
    ELSE IF neg THEN (IF SLt(d1, d) THEN d1 ELSE minDuration)
    ELSE IF SGt(d1, d) THEN d1 ELSE maxDuration
\* the branch d < 0 (neg, r already negated) and the branch d >= 0
nt_DurationRound_half(d, m, r, half, neg, ovf) ==
    IF half = Trap THEN Trap
    ELSE IF half[1] THEN (IF neg THEN SAdd(d, r, ovf) ELSE SSub(d, r, ovf))
    ELSE nt_DurationRound_d1(d,
                             IF neg THEN SAdd(SSub(d, m, ovf), r, ovf)
                             ELSE SSub(SAdd(d, m, ovf), r, ovf),
                             neg)
nt_DurationRound_r(d, m, r, ovf) ==
    nt_DurationRound_half(d, m, r, nt_lessThanHalf(r, m, ovf), IsNeg(d), ovf)
nt_DurationRound(d, m, ovf) ==
    IF SLe(m, Zero64) THEN d
    ELSE nt_DurationRound_r(d, m, IF IsNeg(d) THEN Neg(SRem(d, m)) ELSE SRem(d, m), ovf)

\* the negation without the special case of minDuration
DurationNegate(d) == IF SGe(d, Zero64) THEN d ELSE Neg(d)
nt_DurationAbs(d) ==
    IF SGe(d, Zero64) THEN d
    ELSE IF d = minDuration THEN maxDuration
    ELSE Neg(d)

\* A char is a string of one character; the two bytes of the micro sign in
\* UTF-8 are named by their values.  buf[w] of the source is buf[w + 1] here.
DigitChar(digit) == <<"0", "1", "2", "3", "4", "5", "6", "7", "8", "9">>[digit + 1]
MicroSign == <<"C2", "B5">>
Put(buf, w, c) == [buf EXCEPT ![w + 1] = c]

RECURSIVE nt_fmtFrac_loop(_, _, _, _, _, _)
nt_fmtFrac_digit(buf, w, v, digit, prec, i, print) ==
    IF print \/ digit # 0
    THEN nt_fmtFrac_loop(Put(buf, w - 1, DigitChar(digit)), w - 1, v, prec, i + 1, TRUE)
    ELSE nt_fmtFrac_loop(buf, w, v, prec, i + 1, FALSE)
\* qr is <<v / 10, v % 10>>
nt_fmtFrac_step(buf, w, qr, prec, i, print) ==
    nt_fmtFrac_digit(buf, w, qr[1], ToInt(qr[2]), prec, i, print)
nt_fmtFrac_loop(buf, w, v, prec, i, print) ==
    IF i < prec THEN nt_fmtFrac_step(buf, w, UDivMod(v, I64(10)), prec, i, print)
    ELSE IF print THEN [buf |-> Put(buf, w - 1, "."), nw |-> w - 1, nv |-> v]
    ELSE [buf |-> buf, nw |-> w, nv |-> v]
\* the fraction printed from its last digit on, zero or not
fmtFracNoTrim(buf, bufLen, v, prec) == nt_fmtFrac_loop(buf, bufLen, v, prec, 0, TRUE)
nt_fmtFrac(buf, bufLen, v, prec) == nt_fmtFrac_loop(buf, bufLen, v, prec, 0, FALSE)

RECURSIVE nt_fmtInt_loop(_, _, _)
nt_fmtInt_step(buf, w, qr) ==
    nt_fmtInt_loop(Put(buf, w - 1, DigitChar(ToInt(qr[2]))), w - 1, qr[1])
nt_fmtInt_loop(buf, w, v) ==
    IF v # Zero64 THEN nt_fmtInt_step(buf, w, UDivMod(v, I64(10)))
    ELSE [buf |-> buf, w |-> w]
\* the buffer as nt_fmtInt leaves it and the index it returns
nt_fmtInt(buf, bufLen, v) ==
    IF v = Zero64 THEN [buf |-> Put(buf, bufLen - 1, "0"), w |-> bufLen - 1]
    ELSE nt_fmtInt_loop(buf, bufLen, v)

nt_Duration_format_int(ff) == nt_fmtInt(ff.buf, ff.nw, ff.nv)
\* uv is u of the source: u < nt_SECOND, u # 0; 's' is at buf[31] and w is 30
nt_Duration_format_small(uv, buf) ==
    IF ULt(uv, nt_MICROSECOND)
    THEN nt_Duration_format_int(nt_fmtFrac(Put(buf, 30, "n"), 30, uv, 0))
    ELSE IF ULt(uv, nt_MILLISECOND)
    THEN nt_Duration_format_int(
             nt_fmtFrac(Put(Put(buf, 29, MicroSign[1]), 30, MicroSign[2]), 29, uv, 3))
    ELSE nt_Duration_format_int(nt_fmtFrac(Put(buf, 30, "m"), 30, uv, 6))
\* uv is integer hours (u of the source)
nt_Duration_format_hour(r, uv) ==
    IF uv # Zero64 THEN nt_fmtInt(Put(r.buf, r.w - 1, "h"), r.w - 1, uv) ELSE r
\* uv is integer minutes
nt_Duration_format_min(r, uv) ==
    IF uv # Zero64
    THEN nt_Duration_format_hour(
             nt_fmtInt(Put(r.buf, r.w - 1, "m"), r.w - 1, URem(uv, I64(60))),
             UDiv(uv, I64(60)))
    ELSE r
\* ff.nv is integer seconds
nt_Duration_format_sec(ff) ==
    nt_Duration_format_min(nt_fmtInt(ff.buf, ff.nw, URem(ff.nv, I64(60))),
                           UDiv(ff.nv, I64(60)))
nt_Duration_format_sign(r, neg) ==
    IF neg THEN [buf |-> Put(r.buf, r.w - 1, "-"), w |-> r.w - 1] ELSE r
nt_Duration_format_u(uv, neg, buf) ==
    IF ULt(uv, nt_SECOND)
    THEN IF uv = Zero64 THEN [buf |-> Put(Put(buf, 31, "s"), 30, "0"), w |-> 30]
         ELSE nt_Duration_format_sign(nt_Duration_format_small(uv, Put(buf, 31, "s")), neg)
    ELSE nt_Duration_format_sign(
             nt_Duration_format_sec(nt_fmtFrac(Put(buf, 31, "s"), 31, uv, 9)), neg)
\* the buffer as nt_Duration_format leaves it and the offset it returns
nt_Duration_format(d, buf) ==
    nt_Duration_format_u(IF IsNeg(d) THEN Neg(d) ELSE d, IsNeg(d), buf)

(***************************************************************************)
(* Inputs                                                                  *)
(***************************************************************************)
\* how far around each interesting value the inputs range
Spread == 2

MaxInt64 == Sub(Shl(I64(1), 63), I64(1))
MinInt64 == Shl(I64(1), 63)
Around(x) == {Add(x, I64(k)) : k \in -Spread..Spread}

\* utctests of time_test.c: the seconds and the golden fields
utctests ==
    <<[seconds |-> I64(0),
       golden |-> [Year |-> 1970, Month |-> nt_JANUARY, Day |-> 1, Hour |-> 0, Minute |-> 0,
                   Second |-> 0, Nanosecond |-> 0, Weekday |-> nt_THURSDAY]],
      [seconds |-> I64(1221681866),
       golden |-> [Year |-> 2008, Month |-> nt_SEPTEMBER, Day |-> 17, Hour |-> 20, Minute |-> 4,
                   Second |-> 26, Nanosecond |-> 0, Weekday |-> nt_WEDNESDAY]],
      [seconds |-> I64(-1221681866),
       golden |-> [Year |-> 1931, Month |-> nt_APRIL, Day |-> 16, Hour |-> 3, Minute |-> 55,
                   Second |-> 34, Nanosecond |-> 0, Weekday |-> nt_THURSDAY]],
      \* -11644473600 = -(134774 * 86400)
      [seconds |-> Neg(Mul(I64(134774), I64(86400))),
       golden |-> [Year |-> 1601, Month |-> nt_JANUARY, Day |-> 1, Hour |-> 0, Minute |-> 0,
                   Second |-> 0, Nanosecond |-> 0, Weekday |-> nt_MONDAY]],
      [seconds |-> I64(599529660),
       golden |-> [Year |-> 1988, Month |-> nt_DECEMBER, Day |-> 31, Hour |-> 0, Minute |-> 1,
                   Second |-> 0, Nanosecond |-> 0, Weekday |-> nt_SATURDAY]],
      [seconds |-> I64(978220860),
       golden |-> [Year |-> 2000, Month |-> nt_DECEMBER, Day |-> 31, Hour |-> 0, Minute |-> 1,
                   Second |-> 0, Nanosecond |-> 0, Weekday |-> nt_SUNDAY]]>>

TestSeconds == {utctests[i].seconds : i \in 1..Len(utctests)}

\* Unix seconds: the test table, the neighbourhood of 0, and both ends of the
\* range in which sec + nt_unixToInternal is an int64_t, with what lies beyond them
UnixSeconds ==
    TestSeconds \cup Around(Zero64)
    \cup Around(Sub(MaxInt64, nt_unixToInternal))
    \cup Around(Add(MinInt64, I64(Spread)))
    \cup {MaxInt64}
\* nanoseconds in range, above it and below it
UnixNanos == {0, 1000000001, -1}

(***************************************************************************)
(* SpecUnix: a caller builds a Time from Unix seconds, as TestSecondsToUTC *)
(* does, moves it to UTC, and reads it back.                               *)
(***************************************************************************)
ZeroTime == nt_Time(Zero64, Zero64, NULL)

\* same() of time_test.c: every calendar and clock getter of tm
Fields(tm) ==
    [Date |-> nt_TimeDate(tm), Clock |-> nt_TimeClock(tm),
     Year |-> nt_TimeYear(tm), Month |-> nt_TimeMonth(tm), Day |-> nt_TimeDay(tm),
     Hour |-> nt_TimeHour(tm), Minute |-> nt_TimeMinute(tm), Second |-> nt_TimeSecond(tm),
     Nanosecond |-> nt_TimeNanosecond(tm), Weekday |-> nt_TimeWeekday(tm)]

InitUnix ==
    /\ call = "init"
    /\ arg \in [sec : UnixSeconds, nsec : UnixNanos]
    /\ t = ZeroTime
    /\ u = ZeroTime
    /\ ret = <<>>
    /\ locs = StaticLocations
    /\ nt_startNano = Zero64

CallUnix ==
    /\ call = "init"
    /\ t' = nt_Unix(arg.sec, arg.nsec)
    /\ call' = "nt_Unix"
    /\ UNCHANGED <<arg, u, ret, statics>>

CallTimeUTC ==
    /\ call # "init"
    /\ t' = nt_TimeUTC(t)
    /\ call' = "nt_TimeUTC"
    /\ ret' = <<>>
    /\ UNCHANGED <<arg, u, statics>>

CallTimeUnix ==
    /\ call # "init"
    /\ ret' = nt_TimeUnix(t)
    /\ call' = "nt_TimeUnix"
    /\ UNCHANGED <<arg, t, u, statics>>

CallFields ==
    /\ call # "init"
    /\ ret' = Fields(t)
    /\ call' = "same"
    /\ UNCHANGED <<arg, t, u, statics>>

NextUnix == CallUnix \/ CallTimeUTC \/ CallTimeUnix \/ CallFields
SpecUnix == InitUnix /\ [][NextUnix]_vars

\* C1: for every sec for which sec + nt_unixToInternal is an int64_t,
\* nt_TimeUnix(nt_Unix(sec, 0)) = sec, before and after nt_TimeUTC is applied
UnixRoundTrip ==
    (call = "nt_TimeUnix" /\ arg.nsec = 0 /\ FitsInt64(WAdd(arg.sec, nt_unixToInternal)))
        => ret = arg.sec
\* the largest such sec, read back after nt_TimeUTC
UnixRoundTripWitness ==
    /\ call = "nt_TimeUnix"
    /\ arg.nsec = 0
    /\ arg.sec = Sub(MaxInt64, nt_unixToInternal)
    /\ t.loc = NULL
    /\ ret = arg.sec

GoldenFields(g) ==
    [Date |-> [year |-> g.Year, month |-> g.Month, day |-> g.Day],
     Clock |-> [hour |-> g.Hour, min |-> g.Minute, sec |-> g.Second],
     Year |-> g.Year, Month |-> g.Month, Day |-> g.Day,
     Hour |-> g.Hour, Minute |-> g.Minute, Second |-> g.Second,
     Nanosecond |-> g.Nanosecond, Weekday |-> g.Weekday]

\* C2: for every second of the test table, nt_TimeUTC(nt_Unix(s, 0)) decomposes
\* to the Gregorian UTC date, clock and weekday of s, the golden fields of the table
UtcFieldsAreGolden ==
    \A i \in 1..Len(utctests) :
        (call = "same" /\ t.loc = NULL /\ arg.nsec = 0 /\ arg.sec = utctests[i].seconds)
            => ret = GoldenFields(utctests[i].golden)


(***************************************************************************)
(* SpecCompare: a caller makes two Times, t and then u, each from Unix     *)
(* seconds or from the clock, gives either a monotonic reading, and        *)
(* compares them.  nt_init may run before either is made.  arg names the   *)
(* operand made last.                                                      *)
(***************************************************************************)
CompareSeconds == {I64(3), I64(5)}
CompareNanos == {0, 3, 5}
\* what clock_gettime reports: a time of the packed range and one past it
ClockTimes == {[tv_sec |-> I64(4), tv_nsec |-> 5], [tv_sec |-> Shl(I64(1), 33), tv_nsec |-> 5]}
MonoReadings == {I64(7)}

InitCompare ==
    /\ call = "init"
    /\ arg = <<>>
    /\ t = ZeroTime
    /\ u = ZeroTime
    /\ ret = <<>>
    /\ locs = StaticLocations
    /\ nt_startNano = Zero64

\* the operand the next Time goes to
Operand == IF arg = <<>> THEN "t" ELSE "u"
Made(v) ==
    /\ arg # <<"u">>
    /\ t' = IF Operand = "t" THEN v ELSE t
    /\ u' = IF Operand = "u" THEN v ELSE u
    /\ arg' = <<Operand>>
    /\ ret' = <<>>

CmpInit ==
    /\ call \in {"init", "nt_Unix", "nt_Now", "nt_Time_setMono"}
    /\ arg # <<"u">>
    /\ \E ts \in ClockTimes : nt_startNano' = nt_init(ts)
    /\ call' = "nt_init"
    /\ UNCHANGED <<arg, t, u, ret, locs>>

CmpUnix ==
    /\ \E sec \in CompareSeconds, nsec \in CompareNanos : Made(nt_Unix(sec, nsec))
    /\ call' = "nt_Unix"
    /\ UNCHANGED statics

CmpNow ==
    /\ \E ts \in ClockTimes : Made(nt_Now(ts))
    /\ call' = "nt_Now"
    /\ UNCHANGED statics

CmpSetMono ==
    /\ call \in {"nt_Unix", "nt_Now"}
    /\ \E m \in MonoReadings :
          /\ t' = IF arg = <<"t">> THEN nt_Time_setMono(t, m) ELSE t
          /\ u' = IF arg = <<"u">> THEN nt_Time_setMono(u, m) ELSE u
    /\ call' = "nt_Time_setMono"
    /\ UNCHANGED <<arg, ret, statics>>

CmpBefore ==
    /\ arg = <<"u">>
    /\ ret' = nt_TimeBefore(t, u)
    /\ call' = "nt_TimeBefore"
    /\ UNCHANGED <<arg, t, u, statics>>

CmpAfter ==
    /\ arg = <<"u">>
    /\ ret' = nt_TimeAfter(t, u)
    /\ call' = "nt_TimeAfter"
    /\ UNCHANGED <<arg, t, u, statics>>

CmpEqual ==
    /\ arg = <<"u">>
    /\ ret' = nt_TimeEqual(t, u)
    /\ call' = "nt_TimeEqual"
    /\ UNCHANGED <<arg, t, u, statics>>

CmpCompare ==
    /\ arg = <<"u">>
    /\ ret' = nt_TimeCompare(t, u)
    /\ call' = "nt_TimeCompare"
    /\ UNCHANGED <<arg, t, u, statics>>

NextCompare ==
    \/ CmpInit \/ CmpUnix \/ CmpNow \/ CmpSetMono
    \/ CmpBefore \/ CmpAfter \/ CmpEqual \/ CmpCompare
SpecCompare == InitCompare /\ [][NextCompare]_vars

\* the lexicographic order on (seconds, nanoseconds)
LexBefore(a, b) ==
    \/ SLt(nt_Time_sec(a), nt_Time_sec(b))
    \/ nt_Time_sec(a) = nt_Time_sec(b) /\ nt_Time_nsec(a) < nt_Time_nsec(b)
LexEqual(a, b) == nt_Time_sec(a) = nt_Time_sec(b) /\ nt_Time_nsec(a) = nt_Time_nsec(b)

\* C3: when t or u carries no monotonic reading, Before(t, u) is the lexicographic
\* order on (seconds, nanoseconds), After(t, u) is Before(u, t), Equal is equality
\* of both components, and Compare is -1, +1, 0 as Before, After, Equal hold
ComparisonsAreLexicographic ==
    (arg = <<"u">> /\ ~(HasMono(t) /\ HasMono(u))) =>
        /\ call = "nt_TimeBefore" => ret = LexBefore(t, u)
        /\ call = "nt_TimeAfter" => ret = LexBefore(u, t)
        /\ call = "nt_TimeEqual" => ret = LexEqual(t, u)
        /\ call = "nt_TimeCompare" =>
              ret = IF LexBefore(t, u) THEN -1 ELSE IF LexBefore(u, t) THEN 1 ELSE 0

\* wall parts with the monotonic flag set: other seconds, other nanoseconds
MonoWalls ==
    {Or(nt_hasMonotonic, Or(Shl(I64(sec), nt_nsecShift), I64(nsec))) :
        sec \in {0, 1, 6}, nsec \in {0, 999999999}}
SameAt(tm, um) ==
    /\ call = "nt_TimeBefore" => ret = nt_TimeBefore(tm, um) /\ ret = SLt(t.ext, u.ext)
    /\ call = "nt_TimeAfter" => ret = nt_TimeAfter(tm, um) /\ ret = SGt(t.ext, u.ext)
    /\ call = "nt_TimeEqual" => ret = nt_TimeEqual(tm, um) /\ ret = (t.ext = u.ext)
    /\ call = "nt_TimeCompare" =>
          /\ ret = nt_TimeCompare(tm, um)
          /\ ret = IF SLt(t.ext, u.ext) THEN -1 ELSE IF SGt(t.ext, u.ext) THEN 1 ELSE 0

\* C4: when t and u both have the monotonic flag set, Before, After, Equal and
\* Compare are decided by the two ext fields: they return what the order of the
\* ext fields says, and the same with any other wall part in either operand
MonotonicComparisonIgnoresWall ==
    (arg = <<"u">> /\ call \notin {"nt_Unix", "nt_Now", "nt_Time_setMono"}
        /\ HasMono(t) /\ HasMono(u)) =>
        \A w1 \in MonoWalls \cup {t.wall}, w2 \in MonoWalls \cup {u.wall} :
            SameAt([t EXCEPT !.wall = w1], [u EXCEPT !.wall = w2])
\* t is before u on the wall clock and after it on the monotonic one
MonotonicComparisonWitness ==
    /\ call = "nt_TimeCompare"
    /\ HasMono(t) /\ HasMono(u)
    /\ SLt(nt_Time_sec(t), nt_Time_sec(u))
    /\ SGt(t.ext, u.ext)
    /\ ret = 1

(***************************************************************************)
(* Duration arithmetic: nt_DurationRound, nt_DurationTruncate and          *)
(* nt_DurationAbs, each applied to a duration d and a multiple m, on a     *)
(* build that wraps and on one that traps on signed overflow.              *)
(***************************************************************************)
NinetyMinutes == Mul(I64(90), nt_MINUTE)
SixE18 == Mul(I64(6), Mul(nt_SECOND, nt_SECOND))
NineE18 == Mul(I64(9), Mul(nt_SECOND, nt_SECOND))
Durations ==
    Around(Zero64) \cup Around(MinInt64)
        \cup {NinetyMinutes, Neg(NinetyMinutes), I64(7), I64(-7), SixE18, Neg(SixE18)}
Multiples ==
    {I64(-1), Zero64, I64(1), I64(2), I64(3), nt_HOUR, Shl(I64(1), 62), NineE18, MaxInt64}

InitDuration ==
    /\ call = "init"
    /\ arg \in [d : Durations, m : Multiples, ovf : SignedOverflow]
    /\ t = ZeroTime
    /\ u = ZeroTime
    /\ ret = <<>>
    /\ locs = StaticLocations
    /\ nt_startNano = Zero64

CallDurationRound ==
    /\ call = "init"
    /\ ret' = nt_DurationRound(arg.d, arg.m, arg.ovf)
    /\ call' = "nt_DurationRound"
    /\ UNCHANGED <<arg, t, u, statics>>

CallDurationTruncate ==
    /\ call = "init"
    /\ ret' = nt_DurationTruncate(arg.d, arg.m)
    /\ call' = "nt_DurationTruncate"
    /\ UNCHANGED <<arg, t, u, statics>>

CallDurationAbs ==
    /\ call = "init"
    /\ ret' = nt_DurationAbs(arg.d)
    /\ call' = "nt_DurationAbs"
    /\ UNCHANGED <<arg, t, u, statics>>

NextDuration == CallDurationRound \/ CallDurationTruncate \/ CallDurationAbs
SpecDuration == InitDuration /\ [][NextDuration]_vars

\* the multiple of m nearest to d, the one farther from zero of two equally
\* near, m > 0: exact, in five limbs
Nearest(d, m) ==
    LET r == SRem(d, m)
        low == SExt(Sub(d, r), 5)
        twice == WAdd(Abs(r), Abs(r))
    IN  IF SLt(twice, SExt(m, 5)) THEN low
        ELSE IF IsNeg(d) THEN Sub(low, SExt(m, 5))
        ELSE Add(low, SExt(m, 5))
IsMultiple(x, m) == Mul(SDiv(x, m), m) = x
\* |x - d|, exact
Distance(x, d) == Abs(WSub(x, d))

\* C5: when m > 0 and the multiple of m nearest to d is a Duration,
\* nt_DurationRound(d, m) returns a multiple of m no farther than m/2 from d,
\* and of two multiples equally near the one farther from zero
RoundIsNearestMultiple ==
    (call = "nt_DurationRound" /\ SGt(arg.m, Zero64) /\ FitsInt64(Nearest(arg.d, arg.m))) =>
        /\ ret # Trap
        /\ IsMultiple(ret, arg.m)
        /\ SLe(Add(Distance(ret, arg.d), Distance(ret, arg.d)), SExt(arg.m, 5))
        /\ Add(Distance(ret, arg.d), Distance(ret, arg.d)) = SExt(arg.m, 5) =>
               SGt(Abs(SExt(ret, 5)), Abs(SExt(arg.d, 5)))

\* C6: when m > 0 and the multiple of m nearest to d is above the greatest
\* Duration nt_DurationRound(d, m) returns maxDuration, when it is below the
\* least it returns minDuration, and no result has the sign opposite to d's
RoundSaturates ==
    (call = "nt_DurationRound" /\ SGt(arg.m, Zero64)) =>
        /\ ~FitsInt64(Nearest(arg.d, arg.m)) =>
               ret = IF IsNeg(Nearest(arg.d, arg.m)) THEN minDuration ELSE maxDuration
        /\ ret # Trap =>
               /\ IsNeg(ret) => IsNeg(arg.d)
               /\ IsNeg(arg.d) => SLe(ret, Zero64)

\* C7: nt_DurationTruncate(d, m) is d when m <= 0; when m > 0 it is a multiple
\* of m between zero and d, less than m away from d, and truncating it by m
\* again returns it
TruncateIsTowardZero ==
    call = "nt_DurationTruncate" =>
        IF SLe(arg.m, Zero64) THEN ret = arg.d
        ELSE /\ IsMultiple(ret, arg.m)
             /\ IF IsNeg(arg.d) THEN SLe(arg.d, ret) /\ SLe(ret, Zero64)
                ELSE SLe(Zero64, ret) /\ SLe(ret, arg.d)
             /\ SLt(Distance(ret, arg.d), SExt(arg.m, 5))
             /\ nt_DurationTruncate(ret, arg.m) = ret
\* truncate(-90 min, 1 h) = -60 min
TruncateWitness ==
    /\ call = "nt_DurationTruncate"
    /\ arg.d = Neg(NinetyMinutes)
    /\ arg.m = nt_HOUR
    /\ ret = Neg(nt_HOUR)

\* C8: nt_DurationAbs(d) is d when d >= 0, the greatest Duration when d is the
\* least, and otherwise the value that added to d gives zero; it is never
\* negative
AbsIsMagnitude ==
    call = "nt_DurationAbs" =>
        /\ ~IsNeg(ret)
        /\ IF ~IsNeg(arg.d) THEN ret = arg.d
           ELSE IF arg.d = MinInt64 THEN ret = MaxInt64
           ELSE Add(ret, arg.d) = Zero64
\* abs(minDuration) = maxDuration
AbsWitness ==
    /\ call = "nt_DurationAbs"
    /\ arg.d = MinInt64
    /\ ret = MaxInt64

(***************************************************************************)
(* Duration text: nt_Duration_format applied to a duration, the buffer     *)
(* being the array of nt_DurationString.                                   *)
(***************************************************************************)
RECURSIVE Uninitialized(_)
\* n chars nothing was written to
Uninitialized(n) == IF n = 0 THEN <<>> ELSE <<"">> \o Uninitialized(n - 1)
\* char arr[32] of nt_DurationString
arr == Uninitialized(32)

FormatDurations ==
    UNION {Around(b) \cup Around(Neg(b)) :
              b \in {Zero64, nt_MICROSECOND, nt_MILLISECOND, I64(1500000), nt_SECOND,
                     nt_MINUTE, NinetyMinutes, nt_HOUR, Mul(I64(3723456), nt_MILLISECOND),
                     MaxInt64}}

InitFormat ==
    /\ call = "init"
    /\ arg \in [d : FormatDurations]
    /\ t = ZeroTime
    /\ u = ZeroTime
    /\ ret = <<>>
    /\ locs = StaticLocations
    /\ nt_startNano = Zero64

CallDurationFormat ==
    /\ call = "init"
    /\ ret' = nt_Duration_format(arg.d, arr)
    /\ call' = "nt_Duration_format"
    /\ UNCHANGED <<arg, t, u, statics>>

NextFormat == CallDurationFormat
SpecFormat == InitFormat /\ [][NextFormat]_vars

\* The reference text, written from its first character on.
RefDigit(n) == <<"0", "1", "2", "3", "4", "5", "6", "7", "8", "9">>[ToInt(n) + 1]
RECURSIVE Decimal(_)
\* the decimal digits of n
Decimal(n) ==
    IF ULt(n, I64(10)) THEN <<RefDigit(n)>>
    ELSE Decimal(UDiv(n, I64(10))) \o <<RefDigit(URem(n, I64(10)))>>
RECURSIVE Padded(_, _)
\* the p decimal digits of f, f < 10^p
Padded(f, p) ==
    IF p = 0 THEN <<>>
    ELSE <<RefDigit(UDiv(f, I64(10 ^ (p - 1))))>> \o Padded(URem(f, I64(10 ^ (p - 1))), p - 1)
RECURSIVE Trimmed(_)
Trimmed(s) ==
    IF s # <<>> /\ s[Len(s)] = "0" THEN Trimmed(SubSeq(s, 1, Len(s) - 1)) ELSE s
WithPoint(s) == IF s = <<>> THEN s ELSE <<".">> \o s
\* n / 10^p in decimal, p <= 9
Scaled(n, p) ==
    Decimal(UDiv(n, I64(10 ^ p))) \o WithPoint(Trimmed(Padded(URem(n, I64(10 ^ p)), p)))
\* the text of n nanoseconds, n >= 0
MagnitudeText(n) ==
    IF n = Zero64 THEN <<"0", "s">>
    ELSE IF ULt(n, I64(1000)) THEN Decimal(n) \o <<"n", "s">>
    ELSE IF ULt(n, I64(1000000)) THEN Scaled(n, 3) \o <<"C2", "B5", "s">>
    ELSE IF ULt(n, I64(1000000000)) THEN Scaled(n, 6) \o <<"m", "s">>
    ELSE LET minute == Mul(I64(60), I64(1000000000))
             hours == UDiv(n, Mul(I64(60), minute))
             mins == URem(UDiv(n, minute), I64(60))
         IN  (IF hours # Zero64 THEN Decimal(hours) \o <<"h">> ELSE <<>>)
                 \o (IF hours # Zero64 \/ mins # Zero64 THEN Decimal(mins) \o <<"m">>
                     ELSE <<>>)
                 \o Scaled(URem(n, minute), 9) \o <<"s">>
DurationText(d) == IF IsNeg(d) THEN <<"-">> \o MagnitudeText(Neg(d)) ELSE MagnitudeText(d)

\* C9: the chars nt_Duration_format leaves from the offset it returns to the
\* end of the 32-char buffer are the reference text of d, and the offset is
\* not below 0
FormatIsReferenceText ==
    call = "nt_Duration_format" =>
        /\ ret.w >= 0
        /\ ret.w < 32
        /\ SubSeq(ret.buf, ret.w + 1, 32) = DurationText(arg.d)
\* minDuration, the longest text: "-2562047h47m16.854775808s" from offset 7
FormatWitness ==
    /\ call = "nt_Duration_format"
    /\ arg.d = MinInt64
    /\ ret.w = 7
    /\ SubSeq(ret.buf, 8, 16) = <<"-", "2", "5", "6", "2", "0", "4", "7", "h">>

(***************************************************************************)
(* Calendar dates: nt_absDate applied to absolute times, which count the   *)
(* seconds from January 1 of nt_absoluteZeroYear.                          *)
(***************************************************************************)
\* hi * 10^12 + mid * 10^6 + lo
Lit3(hi, mid, lo) ==
    Add(Mul(Add(Mul(I64(hi), I64(1000000)), I64(mid)), I64(1000000)), I64(lo))
\* the day of January 1, 1970, and the days from it of March 1, 1900, January 1
\* and February 29, 2000, January 1, 2001, February 29, 2004, January 1, 2005,
\* March 1, 2100, January 1, 2101 and January 1 of year 1
UnixEpochDay == Lit3(106, 751991, 73094)
UnixDays == {-719162, -25508, 0, 10957, 11016, 11323, 12477, 12784, 47541, 47847}
\* December 31 of a leap year past the range of int: 4294969396 = 2^32 + 2100
FarDay == Lit3(108, 320695, 713550)
AbsDays ==
    UNION {Around(day) :
              day \in {Add(UnixEpochDay, I64(k)) : k \in UnixDays} \cup {FarDay, Zero64}}
AbsTimes == {Add(Mul(day, nt_secondsPerDay), I64(sec)) : day \in AbsDays, sec \in {0, 86399}}

InitDate ==
    /\ call = "init"
    /\ arg \in [abs : AbsTimes, full : BOOLEAN]
    /\ t = ZeroTime
    /\ u = ZeroTime
    /\ ret = <<>>
    /\ locs = StaticLocations
    /\ nt_startNano = Zero64

CallAbsDate ==
    /\ call = "init"
    /\ ret' = nt_absDate(arg.abs, arg.full)
    /\ call' = "nt_absDate"
    /\ UNCHANGED <<arg, t, u, statics>>

NextDate == CallAbsDate
SpecDate == InitDate /\ [][NextDate]_vars

LeapRule(year) == year % 4 = 0 /\ (year % 100 # 0 \/ year % 400 = 0)
MonthLength(month, year) ==
    IF month = 2 THEN (IF LeapRule(year) THEN 29 ELSE 28)
    ELSE IF month \in {4, 6, 9, 11} THEN 30
    ELSE 31

\* C10: nt_absDate(abs, true) returns a month in 1..12 and a day in 1..(the
\* length of that month in that year), and it returns February 29 exactly when
\* the year is a leap year and the day of the year is 59
DateIsOfTheCalendar ==
    (call = "nt_absDate" /\ arg.full) =>
        /\ ret.month \in 1..12
        /\ ret.day \in 1..MonthLength(ret.month, ret.year)
        /\ (ret.month = nt_FEBRUARY /\ ret.day = 29) <=> (LeapRule(ret.year) /\ ret.yday = 59)

\* C30: nt_absDate(abs, false) returns a year and a day of the year with
\* nt_daysSinceEpoch(year) + yday = abs / 86400 and yday from 0 to 364, or to
\* 365 in a leap year, the last day of a cycle of 4, 100 and 400 years included
YearDayIsOfTheYear ==
    (call = "nt_absDate" /\ ~arg.full) =>
        /\ Add(nt_daysSinceEpoch(I64(ret.year)), I64(ret.yday))
               = UDiv(arg.abs, nt_secondsPerDay)
        /\ ret.yday \in 0..(IF LeapRule(ret.year) THEN 365 ELSE 364)

(***************************************************************************)
(* SpecWeek: a caller builds a Time from Unix seconds, moves it to UTC or  *)
(* leaves it where nt_Unix put it, and asks for its ISO 8601 week.         *)
(***************************************************************************)
\* the days from January 1, 1970 of three Mondays: December 27, 1999, December 27,
\* 2004 (2004 has 53 weeks) and December 29, 2008 (the first day of week 1 of 2009)
Mondays == {10952, 12779, 14242}
\* seconds of a day: midnight, the morning, and the last second
DaySeconds == {0, 30000, 86399}
WeekSeconds ==
    {Add(Mul(I64(day + k), nt_secondsPerDay), I64(s)) :
        day \in Mondays, k \in 0..6, s \in DaySeconds}

InitWeek ==
    /\ call = "init"
    /\ arg \in [sec : WeekSeconds, nsec : {0}]
    /\ t = ZeroTime
    /\ u = ZeroTime
    /\ ret = <<>>
    /\ locs = StaticLocations
    /\ nt_startNano = Zero64

CallTimeISOWeek ==
    /\ call \in {"nt_Unix", "nt_TimeUTC"}
    /\ ret' = nt_TimeISOWeek(t)
    /\ call' = "nt_TimeISOWeek"
    /\ UNCHANGED <<arg, t, u, statics>>

NextWeek == CallUnix \/ CallTimeUTC \/ CallTimeISOWeek
SpecWeek == InitWeek /\ [][NextWeek]_vars

\* the day of a Unix second from January 1, 1970, and the Thursday of its week,
\* Monday being the first day of a week and January 1, 1970 a Thursday
DayOf(sec) == ToInt(UDiv(sec, nt_secondsPerDay))
ThursdayOf(day) == day - ((day + 3) % 7) + 3
\* the year and the week of a day: one more than the whole weeks before it in its year
WeekOfDay(day) ==
    LET td == nt_absDate(Mul(Add(UnixEpochDay, I64(day)), nt_secondsPerDay), FALSE)
    IN  [year |-> td.year, week |-> td.yday \div 7 + 1]

\* C11: nt_TimeISOWeek(t) is the year and the week (yday / 7 + 1, in 1..53) of the
\* Thursday of the Monday-to-Sunday week of t, on every weekday of t, and
\* January 1, 2000 is in week 52 of 1999
WeekIsOfTheThursday ==
    call = "nt_TimeISOWeek" =>
        /\ \A thursday \in {ThursdayOf(DayOf(arg.sec))} : ret = WeekOfDay(thursday)
        /\ ret.week \in 1..53
        /\ DayOf(arg.sec) = 10957 => ret = [year |-> 1999, week |-> 52]

(***************************************************************************)
(* SpecCivil: a caller asks nt_Date for the Time of calendar and clock     *)
(* fields, in range or not, in UTC or in a Location of its own, on a build *)
(* that wraps and on one that traps on signed overflow.                    *)
(***************************************************************************)
\* a Location a caller keeps: one zone an hour east of UTC, which its cache
\* covers from alpha to omega
East == "East"
CET == [name |-> "CET", offset |-> 3600, isDST |-> FALSE]
EastLocation ==
    [name |-> "East", zone |-> <<CET>>, tx |-> <<>>, extend |-> NULL,
     cacheStart |-> nt_alpha, cacheEnd |-> nt_omega, cacheZone |-> ZoneAddress[1]]
CivilLocations ==
    [l \in {nt_utcLoc, nt_localLoc, East} |->
        IF l = East THEN EastLocation ELSE StaticLocations[l]]

MaxInt == 2147483647
\* January 1, 2000, 00:00:00, and fields around it: each of the sets below moves
\* a unit and the two units it carries into
Midnight ==
    [year |-> 2000, month |-> 1, day |-> 1, hour |-> 0, min |-> 0, sec |-> 0, nsec |-> 0]
OffMonths == {-11, 0, 1, 2, 3, 12, 13, 25}
OffDays == {-1, 0, 1, 29, 32, 60}
OffHours == {-25, -1, 0, 23, 24, 49}
OffMinutes == {-61, -1, 0, 59, 60, 121}
OffSeconds == {-61, -1, 0, 59, 60, MaxInt}
OffNanos == {-2000000001, -1, 0, 999999999, 1000000000, MaxInt}
CivilFields ==
    {[Midnight EXCEPT !.year = y, !.month = m, !.day = d] :
        y \in {1999, 2000}, m \in OffMonths, d \in OffDays}
    \cup {[Midnight EXCEPT !.day = d, !.hour = h, !.min = m] :
        d \in {1, 32}, h \in OffHours, m \in OffMinutes}
    \cup {[Midnight EXCEPT !.min = m, !.sec = s, !.nsec = n] :
        m \in {0, 59}, s \in OffSeconds, n \in OffNanos}
    \cup {[Midnight EXCEPT !.year = 1970]}

InitCivil ==
    /\ call = "init"
    /\ arg \in [fields : CivilFields, loc : {NULL, nt_UTC, nt_Local, East},
                 ovf : SignedOverflow]
    /\ t = ZeroTime
    /\ u = ZeroTime
    /\ ret = <<>>
    /\ locs = CivilLocations
    /\ nt_startNano = Zero64

\* the fields as C ints
Ints(f) ==
    [year |-> I64(f.year), month |-> I64(f.month), day |-> I64(f.day), hour |-> I64(f.hour),
     min |-> I64(f.min), sec |-> I64(f.sec), nsec |-> I64(f.nsec)]
DateOf(f, loc, ovf) == nt_Date(f.year, f.month, f.day, f.hour, f.min, f.sec, f.nsec, loc, ovf)

CallDate ==
    /\ call = "init"
    /\ ret' = DateOf(Ints(arg.fields), arg.loc, arg.ovf)
    /\ call' = "nt_Date"
    /\ UNCHANGED <<arg, t, u, statics>>

\* the date and the clock of the Time nt_Date returned
CallDateFields ==
    /\ call = "nt_Date"
    /\ ret # Trap
    /\ arg.loc # NULL
    /\ ret' = [Date |-> nt_TimeDate(ret), Clock |-> nt_TimeClock(ret)]
    /\ call' = "fields"
    /\ UNCHANGED <<arg, t, u, statics>>

\* the Time of the seconds and nanoseconds of the fields, put in the Location
CallInLocation ==
    /\ call = "init"
    /\ t' = nt_TimeIn(nt_Unix(I64(arg.fields.sec), arg.fields.nsec), arg.loc)
    /\ call' = "nt_TimeIn"
    /\ UNCHANGED <<arg, u, ret, statics>>

NextCivil == CallDate \/ CallDateFields \/ CallInLocation
SpecCivil == InitCivil /\ [][NextCivil]_vars

\* lo carried into hi: the whole multiples of base in lo, rounded down, go to hi
CarryInto(hi, lo, base) ==
    LET r == SRem(Add(SRem(lo, I64(base)), I64(base)), I64(base))
    IN  <<Add(hi, SDiv(Sub(lo, r), I64(base))), r>>
\* the fields with every excess carried into the next larger unit: nanoseconds
\* into seconds, seconds into minutes, minutes into hours, hours into days, and
\* months into years
Carried(ym, dh, hm, ms, sn) ==
    [year |-> ym[1], month |-> Add(ym[2], I64(1)), day |-> dh[1], hour |-> dh[2],
     min |-> hm[2], sec |-> ms[2], nsec |-> sn[2]]
\* a day past the end of its month carried into the next month
DaysOfMonth(f) == MonthLength(ToInt(f.month), ToInt(f.year))
CarriedDay(f) ==
    IF ToInt(f.day) > DaysOfMonth(f) /\ ToInt(f.month) < 12
    THEN [year |-> f.year, month |-> Add(f.month, I64(1)),
          day |-> Sub(f.day, I64(DaysOfMonth(f))), hour |-> f.hour, min |-> f.min,
          sec |-> f.sec, nsec |-> f.nsec]
    ELSE f

\* the fields are ints, and all but the year and the day are in their range
InRange(f) ==
    /\ FitsInt(f.year) /\ FitsInt(f.day)
    /\ ToInt(f.month) \in 1..12
    /\ ToInt(f.hour) \in 0..23
    /\ ToInt(f.min) \in 0..59
    /\ ToInt(f.sec) \in 0..59
    /\ ToInt(f.nsec) \in 0..999999999

\* C12: nt_Date returns, for fields of any value, the Time it returns for the
\* fields with the excess carried into the next larger unit: month 13 of a year
\* is January of the next, and day 32 of January is February 1
DateCarries ==
    call = "nt_Date" =>
        \A f \in {Ints(arg.fields)} :
        \A sn \in {CarryInto(f.sec, f.nsec, 1000000000)} :
        \A ms \in {CarryInto(f.min, sn[1], 60)} :
        \A hm \in {CarryInto(f.hour, ms[1], 60)} :
        \A dh \in {CarryInto(f.day, hm[1], 24)} :
        \A ym \in {CarryInto(f.year, Sub(f.month, I64(1)), 12)} :
        \A carried \in {Carried(ym, dh, hm, ms, sn)} :
        \A day \in {CarriedDay(carried)} :
            /\ InRange(carried) /\ InRange(day)
            /\ ret = DateOf(carried, arg.loc, arg.ovf)
            /\ ret = DateOf(day, arg.loc, arg.ovf)

\* a civil date and a time of day
IsCivil(f) ==
    /\ f.month \in 1..12
    /\ f.day \in 1..MonthLength(f.month, f.year)
    /\ f.hour \in 0..23
    /\ f.min \in 0..59
    /\ f.sec \in 0..59
\* the days from 1970-01-01 to a civil date of the proleptic Gregorian
\* calendar, the years counted from March in cycles of 400
CivilDaysOf(y, m, d) ==
    (y \div 400) * 146097 + (y % 400) * 365 + (y % 400) \div 4 - (y % 400) \div 100
        + (153 * m + 2) \div 5 + d - 1 - 719468
CivilDays(f) ==
    CivilDaysOf(IF f.month <= 2 THEN f.year - 1 ELSE f.year,
                IF f.month <= 2 THEN f.month + 9 ELSE f.month - 3, f.day)
CivilSeconds(f) == CivilDays(f) * 86400 + f.hour * 3600 + f.min * 60 + f.sec
\* C29: nt_Date is the inverse of the decomposition in UTC: the Unix second of
\* the Time of a civil date and time of day is the count of seconds from
\* 1970-01-01 00:00:00 in the proleptic Gregorian calendar, 0 for that date,
\* and the constant that leads from absolute to internal seconds is
\* -(292277022400 * 31556952)
DateIsInverse ==
    (call = "nt_Date" /\ arg.loc = nt_UTC /\ IsCivil(arg.fields) /\ arg.fields.nsec = 0) =>
            /\ ret # Trap
            /\ nt_TimeUnix(ret) = I64(CivilSeconds(arg.fields))
            /\ nt_absoluteToInternal = Neg(Mul(Mul(I64(1461385112), I64(200)), I64(31556952)))

\* C20: nt_Date and nt_TimeIn end in nt_panic exactly when the Location they are
\* given is null: with a null Location nothing else is computed, whatever the
\* fields, and no Time is returned; with a Location the panic is not raised
MissingLocationPanics ==
    /\ call = "nt_Date" =>
            (arg.loc = NULL <=> ret = nt_panic("time: missing Location in call to Date\n"))
    /\ call = "nt_TimeIn" =>
            (arg.loc = NULL <=> t = nt_panic("time: missing Location in call to nt_TimeIn"))
MissingLocationWitness ==
    /\ call = "nt_Date"
    /\ arg.loc = NULL
    /\ arg.fields.sec = MaxInt
    /\ arg.ovf = "traps"
    /\ ret = nt_panic("time: missing Location in call to Date\n")

(***************************************************************************)
(* SpecZone: a caller keeps a Location with zones and transitions, asks    *)
(* which zone is in use at a second, puts a Time in the Location and asks  *)
(* for the bounds of its zone.                                             *)
(***************************************************************************)
\* the longest transition list
MaxTx == 4
Zoned == "Zoned"
LMT == [name |-> "LMT", offset |-> -17762, isDST |-> FALSE]
EST == [name |-> "EST", offset |-> -18000, isDST |-> FALSE]
EDT == [name |-> "EDT", offset |-> -14400, isDST |-> TRUE]
CDT == [name |-> "CDT", offset |-> -18000, isDST |-> TRUE]
\* zone tables, each with the zones its transitions go to, in turn: the first
\* zone unused; the first zone used and the first transition to a zone in
\* daylight time after one that is not; the first transition to a zone not in
\* daylight time that is not the first; every zone in daylight time
ZoneTables ==
    {[zone |-> <<LMT, EDT, EST>>, index |-> <<1, 2>>],
     [zone |-> <<EDT, EST, CDT>>, index |-> <<2, 0, 1>>],
     [zone |-> <<EDT, EST, CDT>>, index |-> <<1, 0, 2>>],
     [zone |-> <<EDT, CDT>>, index |-> <<0, 1>>]}
\* transition i of a list: 2 * 10^9 seconds apart, the second at 0 and the
\* fourth after the year 2038, where a Unix second is no int
WhenOf(i) == Mul(I64(i - 2), I64(2000000000))
RECURSIVE Transitions(_, _)
Transitions(index, n) ==
    IF n = 0 THEN <<>>
    ELSE Transitions(index, n - 1)
         \o <<[when |-> WhenOf(n), index |-> index[((n - 1) % Len(index)) + 1]]>>
\* the cache slot: empty, or holding the last zone of the table for the time
\* between the second and the third transition
Caches ==
    {[cacheStart |-> Zero64, cacheEnd |-> Zero64, cacheZone |-> NULL],
     [cacheStart |-> WhenOf(2), cacheEnd |-> WhenOf(3), cacheZone |-> "last"]}
ZonedLocation(table, n, cache) ==
    [name |-> Zoned, zone |-> table.zone, tx |-> Transitions(table.index, n), extend |-> NULL,
     cacheStart |-> cache.cacheStart, cacheEnd |-> cache.cacheEnd,
     cacheZone |-> IF cache.cacheZone = NULL THEN NULL ELSE ZoneAddress[Len(table.zone)]]
ZonedLocations ==
    {ZonedLocation(table, n, cache) : table \in ZoneTables, n \in 0..MaxTx, cache \in Caches}
\* the seconds asked about: around each transition
ZoneSeconds == UNION {Around(WhenOf(i)) : i \in 1..MaxTx}

InitZone ==
    /\ call = "init"
    /\ arg \in [loc : {NULL, nt_UTC, Zoned}, sec : ZoneSeconds]
    /\ t = ZeroTime
    /\ u = ZeroTime
    /\ ret = <<>>
    /\ \E l \in ZonedLocations :
        locs = [a \in {nt_utcLoc, nt_localLoc, Zoned} |->
                    IF a = Zoned THEN l ELSE StaticLocations[a]]
    /\ nt_startNano = Zero64

CallLocationLookup ==
    /\ call = "init"
    /\ ret' = nt_Location_lookup(arg.loc, arg.sec)
    /\ call' = "nt_Location_lookup"
    /\ UNCHANGED <<arg, t, u, statics>>

\* t is the Time of arg.sec in the Location
CallTimeIn ==
    /\ call = "init"
    /\ arg.loc # NULL
    /\ t' = nt_TimeIn(nt_Unix(arg.sec, 0), arg.loc)
    /\ call' = "nt_TimeIn"
    /\ UNCHANGED <<arg, u, ret, statics>>

CallTimeZoneBounds ==
    /\ call = "nt_TimeIn"
    /\ ret' = nt_TimeZoneBounds(t)
    /\ call' = "nt_TimeZoneBounds"
    /\ UNCHANGED <<arg, t, u, statics>>

\* the date, the clock and the weekday of the Time in the Location with zones
CallTimeDate ==
    /\ call = "nt_TimeIn"
    /\ t.loc = Zoned
    /\ ret' = [Date |-> nt_TimeDate(t), Clock |-> nt_TimeClock(t),
               Weekday |-> nt_TimeWeekday(t)]
    /\ call' = "nt_TimeDate"
    /\ UNCHANGED <<arg, t, u, statics>>

NextZone == CallLocationLookup \/ CallTimeIn \/ CallTimeZoneBounds \/ CallTimeDate
SpecZone == InitZone /\ [][NextZone]_vars

\* the Location asked about, whether its cache slot covers sec, and the zone of
\* a transition
Asked == locs[nt_Location_get(arg.loc)]
CacheCovers(l, sec) == l.cacheZone # NULL /\ SLe(l.cacheStart, sec) /\ SLt(sec, l.cacheEnd)
\* the transition with the greatest timestamp <= sec
GreatestBefore(tx, sec) ==
    CHOOSE i \in 1..Len(tx) :
        /\ SLe(tx[i].when, sec)
        /\ \A j \in 1..Len(tx) : SLe(tx[j].when, sec) => j <= i
ZoneIn(zone, start, end) ==
    [name |-> zone.name, offset |-> zone.offset, start |-> start, end |-> end,
     isDST |-> zone.isDST]
ZoneOfTransition(l, i) ==
    ZoneIn(l.zone[l.tx[i].index + 1], l.tx[i].when,
           IF i < Len(l.tx) THEN l.tx[i + 1].when ELSE nt_omega)

\* C13: with zones, sec at or after the first transition and not covered by the
\* cache slot, nt_Location_lookup returns the zone of the transition with the
\* greatest timestamp <= sec, that timestamp as start, and as end the timestamp
\* of the next transition, or omega after the last
LookupIsGreatestTransition ==
    (/\ call = "nt_Location_lookup"
     /\ Len(Asked.zone) > 0 /\ Len(Asked.tx) > 0
     /\ SLe(Asked.tx[1].when, arg.sec)
     /\ ~CacheCovers(Asked, arg.sec))
        => ret = ZoneOfTransition(Asked, GreatestBefore(Asked.tx, arg.sec))

\* C14: for a Location with no zones, UTC and the null Location among them,
\* nt_Location_lookup returns "UTC", offset 0, no daylight time, start alpha
\* and end omega
LookupOfNoZonesIsUTC ==
    (call = "nt_Location_lookup" /\ Len(Asked.zone) = 0)
        => ret = [name |-> "UTC", offset |-> 0, start |-> nt_alpha, end |-> nt_omega,
                  isDST |-> FALSE]

\* C16: with zones, and no transitions or sec before the first, and sec not
\* covered by the cache slot, empty or not, nt_Location_lookup returns the zone
\* nt_Location_lookupFirstZone chooses, start alpha, and as end the timestamp of
\* the first transition, or omega with none
LookupBeforeFirstIsFirstZone ==
    (/\ call = "nt_Location_lookup"
     /\ Len(Asked.zone) > 0
     /\ (Len(Asked.tx) = 0 \/ SLt(arg.sec, Asked.tx[1].when))
     /\ ~CacheCovers(Asked, arg.sec))
        => ret = ZoneIn(Asked.zone[nt_Location_lookupFirstZone(Asked) + 1], nt_alpha,
                        IF Len(Asked.tx) > 0 THEN Asked.tx[1].when ELSE nt_omega)

\* the bounds of the zone in use at sec in l: those of the cache slot where it
\* covers sec, else those the transitions give
BoundsAt(l, sec) ==
    IF Len(l.zone) = 0 THEN [start |-> nt_alpha, end |-> nt_omega]
    ELSE IF CacheCovers(l, sec) THEN [start |-> l.cacheStart, end |-> l.cacheEnd]
    ELSE IF Len(l.tx) = 0 THEN [start |-> nt_alpha, end |-> nt_omega]
    ELSE IF SLt(sec, l.tx[1].when) THEN [start |-> nt_alpha, end |-> l.tx[1].when]
    ELSE [start |-> l.tx[GreatestBefore(l.tx, sec)].when,
          end |-> IF GreatestBefore(l.tx, sec) < Len(l.tx)
                  THEN l.tx[GreatestBefore(l.tx, sec) + 1].when ELSE nt_omega]
\* the Time of a bound in the Location of tm, the zero Time for alpha and omega
BoundTime(sec, tm) ==
    IF sec \in {nt_alpha, nt_omega} THEN ZeroTime
    ELSE nt_Time(Zero64, Add(sec, nt_unixToInternal), tm.loc)

\* C15: nt_TimeZoneBounds(t) returns the Times of the start and the end of the
\* zone in use at t, whole 64-bit seconds, in the Location of t; the zero Time
\* for a start at alpha and for an end at omega, and so both for a Time in UTC
ZoneBoundsAreOfTheZone ==
    call = "nt_TimeZoneBounds" =>
        ret = [start |-> BoundTime(BoundsAt(Asked, arg.sec).start, t),
               end |-> BoundTime(BoundsAt(Asked, arg.sec).end, t)]

\* C23: the date, the clock (the hour with it) and the weekday of a Time in a Location
\* with zones are those of its Unix seconds plus the offset of the zone
\* nt_Location_lookup reports for them, whether the cache slot covers them or not
FieldsAreOfTheZone ==
    (call = "nt_TimeDate" /\ nt_Location_lookup(Zoned, arg.sec) # Trap) =>
        \A abs \in {Add(Add(arg.sec, I64(nt_Location_lookup(Zoned, arg.sec).offset)),
                        Add(nt_unixToInternal, nt_internalToAbsolute))} :
            /\ ret.Date = nt_TimeDate_ret(nt_absDate(abs, TRUE))
            /\ ret.Clock = nt_Time_absClock(abs)
            /\ ret.Weekday = nt_Time_absWeekday(abs)

\* C21: a call of nt_Location_lookup that misses the cache slot of a Location with
\* zones leaves in the slot the zone it found and its interval, which covers sec
LookupFillsCache ==
    [][(/\ call = "init" /\ call' = "nt_Location_lookup"
        /\ Len(Asked.zone) > 0
        /\ ~CacheCovers(Asked, arg.sec)
        /\ ret' # Trap)
       => \A l \in {locs'[nt_Location_get(arg.loc)]} :
            /\ CacheCovers(l, arg.sec)
            /\ ZoneAt(l, l.cacheZone).name = ret'.name
            /\ ZoneAt(l, l.cacheZone).offset = ret'.offset
            /\ l.cacheEnd = ret'.end]_vars

(***************************************************************************)
(* SpecRace: one thread stores a new cache slot into a Location, a word at  *)
(* a time, while another runs nt_Location_lookup or nt_Time_abs on it: each *)
(* read of a word of the slot is a step, and no lock orders the steps.      *)
(***************************************************************************)
\* the slot of the zone of transition i
SlotOf(l, i) ==
    [cacheZone |-> ZoneAddress[l.tx[i].index + 1], cacheStart |-> l.tx[i].when,
     cacheEnd |-> IF i < Len(l.tx) THEN l.tx[i + 1].when ELSE nt_omega]
WithSlot(l, slot) ==
    [name |-> l.name, zone |-> l.zone, tx |-> l.tx, extend |-> l.extend,
     cacheStart |-> slot.cacheStart, cacheEnd |-> slot.cacheEnd, cacheZone |-> slot.cacheZone]
RaceLocations == {ZonedLocation(table, n, [cacheStart |-> Zero64, cacheEnd |-> Zero64, cacheZone |-> NULL]) :
                    table \in ZoneTables, n \in 2..MaxTx - 1}
Readers == {"nt_Location_lookup", "nt_Time_abs"}
\* the words of the slot a reader reads, in the order of its statements
ReadOrder(reader) ==
    IF reader = "nt_Location_lookup"
    THEN <<"cacheZone", "cacheStart", "cacheEnd", "cacheStart", "cacheEnd">>
    ELSE <<"cacheZone", "cacheStart", "cacheEnd", "cacheZone">>

InitRace ==
    /\ \E l \in RaceLocations : \E i, j \in 1..Len(l.tx) :
        /\ i # j
        /\ locs = [a \in {nt_utcLoc, nt_localLoc, Zoned} |->
                    IF a = Zoned THEN WithSlot(l, SlotOf(l, i)) ELSE StaticLocations[a]]
        /\ arg \in [reader : Readers, sec : ZoneSeconds, old : {SlotOf(l, i)},
                     slot : {SlotOf(l, j)}]
    /\ call = [reader |-> "reads", writer |-> {}]
    /\ t = ZeroTime
    /\ u = ZeroTime
    /\ ret = <<>>
    /\ nt_startNano = Zero64

\* the writer stores a word of the new slot
WriterStores ==
    /\ \E word \in {"cacheZone", "cacheStart", "cacheEnd"} \ call.writer :
        /\ locs' = [a \in {nt_utcLoc, nt_localLoc, Zoned} |->
                     IF a = Zoned THEN [locs[a] EXCEPT ![word] = arg.slot[word]] ELSE locs[a]]
        /\ call' = [reader |-> call.reader, writer |-> call.writer \cup {word}]
    /\ UNCHANGED <<arg, t, u, ret, nt_startNano>>

\* the test of the slot as far as the words read decide it: && reads no further
\* once it is false
TestHolds(words, sec) ==
    /\ Len(words) >= 1 => words[1] # NULL
    /\ Len(words) >= 2 => SLe(words[2], sec)
    /\ Len(words) >= 3 => SLt(sec, words[3])
\* the reader reads the next word of the slot
ReaderReads ==
    /\ call.reader = "reads"
    /\ Len(ret) < Len(ReadOrder(arg.reader))
    /\ TestHolds(ret, arg.sec)
    /\ ret' = Append(ret, locs[Zoned][ReadOrder(arg.reader)[Len(ret) + 1]])
    /\ UNCHANGED <<call, arg, t, u, statics>>

\* what the reader returns for the words it read; a word it did not read is
\* not used
ReadWords(words) == words \o <<NULL, Zero64, Zero64, Zero64, Zero64>>
AbsOf(sec) ==
    IF sec = Trap THEN Trap ELSE Add(sec, Add(nt_unixToInternal, nt_internalToAbsolute))
ReaderResult(reader, l, sec, w) ==
    IF reader = "nt_Location_lookup"
    THEN nt_Location_lookup_read(l, sec, w[1], w[2], w[3], w[4], w[5])
    ELSE AbsOf(nt_Time_abs_read(l, sec, w[1], w[2], w[3], w[4]))
ReaderReturns ==
    /\ call.reader = "reads"
    /\ Len(ret) = Len(ReadOrder(arg.reader)) \/ ~TestHolds(ret, arg.sec)
    /\ ret' = ReaderResult(arg.reader, locs[Zoned], arg.sec, ReadWords(ret))
    /\ call' = [reader |-> "returned", writer |-> call.writer]
    /\ UNCHANGED <<arg, t, u, statics>>

NextRace == WriterStores \/ ReaderReads \/ ReaderReturns
SpecRace == InitRace /\ [][NextRace]_vars

\* the result of the reader's call on the Location with a slot
ResultWith(slot) ==
    ReaderResult(arg.reader, locs[Zoned], arg.sec,
                 <<slot.cacheZone, slot.cacheStart, slot.cacheEnd,
                   IF arg.reader = "nt_Location_lookup" THEN slot.cacheStart ELSE slot.cacheZone,
                   slot.cacheEnd>>)

\* C22: whatever the steps of the writer between the reads of the reader, the
\* reader returns what its call returns on the Location with the old slot or on
\* the Location with the new one
ReaderSeesOneSlot ==
    call.reader = "returned" => ret \in {ResultWith(arg.old), ResultWith(arg.slot)}

(***************************************************************************)
(* SpecWall: a Time made from Unix seconds gets a monotonic reading, has   *)
(* it stripped, has seconds added, and is given a Location.  u is the Time *)
(* before the last call, arg the arguments of that call.                   *)
(***************************************************************************)
\* Unix seconds at both ends of the range a packed wall holds, at the epoch, and
\* where the seconds since year 1 come near either end of int64_t
WallSeconds ==
    Around(Sub(nt_minWall, nt_unixToInternal))
    \cup Around(Sub(nt_maxWall, nt_unixToInternal))
    \cup Around(Zero64)
    \cup Around(Sub(Sub(MaxInt64, nt_unixToInternal), I64(Spread)))
    \cup Around(Sub(Add(MinInt64, I64(Spread)), nt_unixToInternal))
WallNanos == {0, 999999999}
WallReadings == {I64(7), I64(-7)}
\* seconds to add: none, one either way, the packed range either way, and both
\* ends of int64_t
Deltas ==
    {Zero64, I64(1), I64(-1), Shl(I64(1), 33), Neg(Shl(I64(1), 33)), MaxInt64, MinInt64}

InitWall ==
    /\ call = "init"
    /\ arg \in [sec : WallSeconds, nsec : WallNanos]
    /\ t = ZeroTime
    /\ u = ZeroTime
    /\ ret = <<>>
    /\ locs = CivilLocations
    /\ nt_startNano = Zero64

CallSetMono ==
    /\ call \in {"nt_Unix", "nt_Time_setMono"}
    /\ \E m \in WallReadings :
          /\ t' = nt_Time_setMono(t, m)
          /\ arg' = [m |-> m]
    /\ u' = t
    /\ call' = "nt_Time_setMono"
    /\ UNCHANGED <<ret, statics>>

CallStripMono ==
    /\ call = "nt_Time_setMono"
    /\ t' = nt_Time_stripMono(t)
    /\ call' = "nt_Time_stripMono"
    /\ UNCHANGED <<arg, u, ret, statics>>

CallAddSec ==
    /\ call \in {"nt_Unix", "nt_Time_setMono"}
    /\ \E d \in Deltas, ovf \in SignedOverflow :
          /\ t' = nt_Time_addSec(t, d, ovf)
          /\ arg' = [d |-> d, ovf |-> ovf]
    /\ u' = t
    /\ call' = "nt_Time_addSec"
    /\ UNCHANGED <<ret, statics>>

CallIn ==
    /\ call \in {"nt_Unix", "nt_Time_setMono"}
    /\ \E loc \in {nt_UTC, East} :
          /\ t' = nt_TimeIn(t, loc)
          /\ arg' = [loc |-> loc]
    /\ u' = t
    /\ call' = "nt_TimeIn"
    /\ UNCHANGED <<ret, statics>>

CallUTC ==
    /\ call \in {"nt_Unix", "nt_Time_setMono"}
    /\ t' = nt_TimeUTC(t)
    /\ arg' = [loc |-> nt_utcLoc]
    /\ u' = t
    /\ call' = "nt_TimeUTC"
    /\ UNCHANGED <<ret, statics>>

CallLocal ==
    /\ call \in {"nt_Unix", "nt_Time_setMono"}
    /\ t' = nt_TimeLocal(t)
    /\ arg' = [loc |-> nt_Local]
    /\ u' = t
    /\ call' = "nt_TimeLocal"
    /\ UNCHANGED <<ret, statics>>

NextWall ==
    \/ CallUnix \/ CallSetMono \/ CallStripMono \/ CallAddSec
    \/ CallIn \/ CallUTC \/ CallLocal
SpecWall == InitWall /\ [][NextWall]_vars

\* the same instant: the same seconds and the same nanoseconds
SameInstant(tm, um) ==
    nt_Time_sec(tm) = nt_Time_sec(um) /\ nt_Time_nsec(tm) = nt_Time_nsec(um)

\* C17: nt_TimeIn, nt_TimeUTC and nt_TimeLocal return a Time without the
\* monotonic flag, with no Location where the name of the target is "UTC" and
\* with the target otherwise, at the instant of the Time they were given
AttachKeepsInstant ==
    call \in {"nt_TimeIn", "nt_TimeUTC", "nt_TimeLocal"} =>
        /\ t # Trap
        /\ ~HasMono(t)
        /\ t.loc = IF locs[arg.loc].name = "UTC" THEN NULL ELSE arg.loc
        /\ SameInstant(t, u)

\* C18: nt_Time_setMono(t, m) leaves a Time without a reading whose seconds are
\* outside minWall..maxWall as it is; else the Time has the flag, nt_Time_mono
\* is m, and the instant is the one before; nt_Time_stripMono then gives back
\* the Time that had no reading
SetMonoKeepsInstant ==
    /\ call = "nt_Time_setMono" =>
        IF ~HasMono(u) /\ (SLt(u.ext, nt_minWall) \/ SLt(nt_maxWall, u.ext))
        THEN t = u
        ELSE /\ HasMono(t)
             /\ nt_Time_mono(t) = arg.m
             /\ SameInstant(t, u)
             /\ t.loc = u.loc
    /\ call = "nt_Time_stripMono" =>
        /\ ~HasMono(t)
        /\ SameInstant(t, u)
        /\ ~HasMono(u) => t = u
\* a reading given at the last second a packed wall holds, and stripped again
SetMonoWitness ==
    /\ call = "nt_Time_stripMono"
    /\ ~HasMono(u)
    /\ u.ext = nt_maxWall
    /\ nt_Time_nsec(u) = 999999999
    /\ arg.m = I64(-7)
    /\ t = u

\* C19: nt_Time_addSec(t, d) keeps the nanoseconds and makes the seconds the old
\* ones plus d, or 2^63 - 1 or -(2^63 - 1) where the sum is no int64_t; a Time
\* with the flag whose packed seconds plus d are in 0..2^33 - 1 keeps the flag
\* and its reading, every other one has no flag after
AddSecSaturates ==
    call = "nt_Time_addSec" =>
        /\ t # Trap
        /\ nt_Time_nsec(t) = nt_Time_nsec(u)
        /\ SExt(nt_Time_sec(t), 5) =
               (LET sum == WAdd(nt_Time_sec(u), arg.d)
                IN  IF FitsInt64(sum) THEN sum
                    ELSE IF IsNeg(sum) THEN SExt(Neg(MaxInt64), 5) ELSE SExt(MaxInt64, 5))
        /\ IF /\ HasMono(u)
              /\ FitsInt64(WAdd(Sub(nt_Time_sec(u), nt_wallToInternal), arg.d))
              /\ SLe(Zero64, Add(Sub(nt_Time_sec(u), nt_wallToInternal), arg.d))
              /\ SLe(Add(Sub(nt_Time_sec(u), nt_wallToInternal), arg.d),
                     Sub(Shl(I64(1), 33), I64(1)))
           THEN HasMono(t) /\ nt_Time_mono(t) = nt_Time_mono(u)
           ELSE ~HasMono(t)

(***************************************************************************)
(* SpecSub: a caller holds two Times, each of Unix seconds and with or      *)
(* without a monotonic reading, and asks for their difference, and for the  *)
(* time since and until the first at a reading of the clock.               *)
(***************************************************************************)
\* seconds a nanosecond count of which is a Duration or not, and 2^25, whose
\* nanoseconds are past 2^53
SubSeconds ==
    {Zero64, I64(33554432), Mul(I64(5), I64(1000000000)), Neg(Mul(I64(5), I64(1000000000)))}
SubNanos == {0, 999999999}
SubReadings == {I64(-7), MaxInt64}
SubTimes ==
    {nt_Unix(sec, nsec) : sec \in SubSeconds, nsec \in SubNanos}
    \cup {nt_Time_setMono(nt_Unix(sec, nsec), m) :
            sec \in SubSeconds, nsec \in SubNanos, m \in SubReadings}

InitSub ==
    /\ call = "init"
    /\ arg \in [ts : ClockTimes, ovf : SignedOverflow]
    /\ t \in SubTimes
    /\ u \in SubTimes
    /\ ret = <<>>
    /\ locs = StaticLocations
    /\ nt_startNano = Zero64

CallTimeSub ==
    /\ call = "init"
    /\ ret' = nt_TimeSub(t, u, arg.ovf)
    /\ call' = "nt_TimeSub"
    /\ UNCHANGED <<arg, t, u, statics>>

CallSince ==
    /\ call = "init"
    /\ ret' = nt_Since(t, arg.ts, arg.ovf)
    /\ call' = "nt_Since"
    /\ UNCHANGED <<arg, t, u, statics>>

CallUntil ==
    /\ call = "init"
    /\ ret' = nt_Until(t, arg.ts, arg.ovf)
    /\ call' = "nt_Until"
    /\ UNCHANGED <<arg, t, u, statics>>

NextSub == CallTimeSub \/ CallSince \/ CallUntil
SpecSub == InitSub /\ [][NextSub]_vars

\* the nanoseconds from um to tm, in 128 bits: of the monotonic readings where
\* both have one, of the seconds and nanoseconds otherwise
Nanos128(sec, nsec) == Add(Mul(SExt(sec, 8), SExt(nt_SECOND, 8)), SExt(I64(nsec), 8))
Elapsed(tm, um) ==
    IF BothMono(tm, um) THEN Sub(SExt(tm.ext, 8), SExt(um.ext, 8))
    ELSE Sub(Nanos128(nt_Time_sec(tm), nt_Time_nsec(tm)),
             Nanos128(nt_Time_sec(um), nt_Time_nsec(um)))
\* a 128-bit count as a Duration, the nearest where it is none
Saturated(w) ==
    IF w = SExt(Low64(w), 8) THEN Low64(w)
    ELSE IF IsNeg(w) THEN minDuration ELSE maxDuration

\* C24: nt_TimeSub(t, u) is the nanoseconds from u to t where they are a
\* Duration, maxDuration where they are above the Durations and minDuration
\* where they are below
SubIsExactOrSaturated ==
    call = "nt_TimeSub" => ret = Saturated(Elapsed(t, u))

\* C27: at one reading of the clock nt_Since(t) is nt_TimeSub(nt_Now(), t) and
\* nt_Until(t) is nt_TimeSub(t, nt_Now()), for a t with a monotonic reading as
\* for one without
SinceIsSubOfNow ==
    /\ call = "nt_Since" => ret = nt_TimeSub(nt_Now(arg.ts), t, arg.ovf)
    /\ call = "nt_Until" => ret = nt_TimeSub(t, nt_Now(arg.ts), arg.ovf)

\* ---------------------------------------------------------------------------
\* SpecAdd: a Time made by nt_Unix, nt_Now or nt_Date, then put in a Location,
\* given or stripped of a monotonic reading, or moved by nt_TimeAdd, MaxOps
\* times at most
MaxOps == 2
\* 2^25 seconds and 999999999 ns: above 2^53, and half a unit of the double from
\* the next second
LongDuration == Add(Mul(I64(33554432), nt_SECOND), I64(999999999))
LongNanos == {I64(-1), LongDuration, MaxInt64}
AddDurations == {I64(1), LongDuration, Neg(LongDuration), MinInt64}
DateNanos == {-1, 1000000000}

InitAdd ==
    /\ call = "init"
    /\ arg \in [d : {Zero64}, ovf : SignedOverflow, ops : {0}]
    /\ t = ZeroTime
    /\ u = ZeroTime
    /\ ret = <<>>
    /\ locs = StaticLocations
    /\ nt_startNano = Zero64

MakeUnix ==
    /\ call = "init"
    /\ \E nsec \in LongNanos : t' = nt_Unix_nsec(I64(5), nsec)
    /\ call' = "nt_Unix"
    /\ UNCHANGED <<arg, u, ret, statics>>

MakeNow ==
    /\ call = "init"
    /\ \E ts \in ClockTimes : t' = nt_Now(ts)
    /\ call' = "nt_Now"
    /\ UNCHANGED <<arg, u, ret, statics>>

MakeDate ==
    /\ call = "init"
    /\ \E nsec \in DateNanos :
          \E tm \in {DateOf(Ints([Midnight EXCEPT !.nsec = nsec]), nt_UTC, arg.ovf)} :
              /\ tm # Trap
              /\ t' = tm
    /\ call' = "nt_Date"
    /\ UNCHANGED <<arg, u, ret, statics>>

\* the operations that change the Location or the monotonic reading of a Time
Moved(tm) ==
    {nt_TimeUTC(tm), nt_Time_stripMono(tm),
     nt_Time_setMono(tm, I64(-7)), nt_Time_setMono(tm, MaxInt64)}

ThenMove ==
    /\ call \notin {"init", "abort"}
    /\ arg.ops < MaxOps
    /\ t' \in Moved(t)
    /\ arg' = [arg EXCEPT !.ops = @ + 1]
    /\ call' = "moved"
    /\ UNCHANGED <<u, ret, statics>>

\* u keeps the Time nt_TimeAdd was given; a trapped sum ends the program
ThenTimeAdd ==
    /\ call \notin {"init", "abort"}
    /\ arg.ops < MaxOps
    /\ \E d \in AddDurations :
          \E tm \in {nt_TimeAdd(t, d, arg.ovf)} :
              /\ t' = tm
              /\ arg' = [arg EXCEPT !.d = d, !.ops = @ + 1]
              /\ call' = IF tm = Trap THEN "abort" ELSE "nt_TimeAdd"
    /\ u' = t
    /\ UNCHANGED <<ret, statics>>

NextAdd == MakeUnix \/ MakeNow \/ MakeDate \/ ThenMove \/ ThenTimeAdd
SpecAdd == InitAdd /\ [][NextAdd]_vars

\* C25: the nanoseconds of every Time that nt_Unix, nt_Now, nt_Date and
\* nt_TimeAdd make, and of every Time the Location and monotonic operations
\* make of one, are from 0 to 999999999
NanosecondsInRange ==
    call \notin {"init", "abort"} => nt_Time_nsec(t) \in 0..999999999
\* nt_TimeAdd carried a second out of the nanoseconds
AddCarried ==
    /\ call = "nt_TimeAdd"
    /\ arg.d = I64(1)
    /\ nt_Time_nsec(u) = 999999999
    /\ nt_Time_nsec(t) = 0

\* the seconds and nanoseconds of a Time plus d, in 128 bits
SumOf(tm, d) == Add(Nanos128(nt_Time_sec(tm), nt_Time_nsec(tm)), SExt(d, 8))
\* C26: nt_TimeAdd(t, d) is the instant t + d: its seconds and nanoseconds are
\* those of t plus d exactly, and the monotonic reading it keeps is the old
\* reading plus d
AddIsExact ==
    call \in {"nt_TimeAdd", "abort"} =>
        /\ t # Trap
        /\ Nanos128(nt_Time_sec(t), nt_Time_nsec(t)) = SumOf(u, arg.d)
        /\ HasMono(t) => t.ext = Add(u.ext, arg.d)

\* ---------------------------------------------------------------------------
\* SpecLocal: nt_Date of civil fields in a Location with zones and
\* transitions, one of them at Unix second 0
LocalHours == {-6, -5, -4, -3}
LocalMinutes == {0, 30}
\* 1970-01-01 00:00, less some hours
LocalFields ==
    {[Midnight EXCEPT !.year = 1970, !.hour = h, !.min = m] :
        h \in LocalHours, m \in LocalMinutes}

InitLocal ==
    /\ call = "init"
    /\ arg \in [fields : LocalFields, ovf : SignedOverflow]
    /\ t = ZeroTime
    /\ u = ZeroTime
    /\ ret = <<>>
    /\ \E l \in ZonedLocations :
        locs = [a \in {nt_utcLoc, nt_localLoc, Zoned} |->
                    IF a = Zoned THEN l ELSE StaticLocations[a]]
    /\ nt_startNano = Zero64

\* u is the Time of the fields in UTC, whose Unix second is the local second
CallDateIn ==
    /\ call = "init"
    /\ ret' = DateOf(Ints(arg.fields), Zoned, arg.ovf)
    /\ u' = DateOf(Ints(arg.fields), nt_UTC, arg.ovf)
    /\ call' = "nt_Date"
    /\ UNCHANGED <<arg, t, statics>>

NextLocal == CallDateIn
SpecLocal == InitLocal /\ [][NextLocal]_vars

\* the first lookup, of the local second taken for a UTC second, gave an offset
\* other than 0 and the candidate that offset leads to is outside the time the
\* lookup is good for
CandidateOutside(first, utc) ==
    /\ first # Trap
    /\ first.offset # 0
    /\ SLt(utc, first.start) \/ SGe(utc, first.end)
\* C28: in nt_Date, when the candidate UTC second is outside [start, end) of
\* the first lookup, the offset taken off is the one nt_Location_lookup gives
\* for the candidate
SecondLookupDecides ==
    (call = "nt_Date" /\ ret # Trap) =>
        \A local \in {nt_TimeUnix(u)} :
            \A first \in {nt_Location_lookup(Zoned, local)} :
                \A utc \in {IF first = Trap THEN local ELSE Sub(local, I64(first.offset))} :
                    CandidateOutside(first, utc) =>
                        /\ nt_Location_lookup(Zoned, utc) # Trap
                        /\ nt_TimeUnix(ret) =
                              Sub(local, I64(nt_Location_lookup(Zoned, utc).offset))
====
